---------------------------- MODULE Spec2Model ----------------------------
(***************************************************************************)
(* Real-time conversation and notification delivery subsystem.            *)
(*                                                                         *)
(*   - socket layer      src/src/utils/socketHandler.js                    *)
(*   - conversations     src/unnamed/part_015 (conversationController)     *)
(*   - notifications     src/unnamed/part_009 (notificationService)        *)
(*                                                                         *)
(* Every `await` of a handler is a step boundary: the Node.js event loop   *)
(* runs the code between two awaits atomically and may interleave any      *)
(* other handler at an await.                                              *)
(***************************************************************************)
EXTENDS Integers, Sequences, FiniteSets, TLC

(***************************************************************************)
(* Bounds of the model.                                                    *)
(***************************************************************************)
MaxSockets == 2
MaxConvs == 1
MaxJoins == 1
MaxReqs == 2
MaxNotifs == 2
MaxMsgs == 2

(***************************************************************************)
(* Identities.  Users are the active accounts; the other identities are    *)
(* the ones the handshake refuses.                                         *)
(***************************************************************************)
Users == {"u1", "u2", "u3"}
NoUser == "none"
Identities == Users \cup {"u_gone", "u_inactive", "u_deleted"}

Sockets == 1..MaxSockets

\* Conversation ids: 0 is a missing or malformed id, 1..MaxConvs + 1 are
\* well-formed ObjectIds; the id of a stored conversation is its index.
WellFormedIds == 1..(MaxConvs + 1)
RawIds == 0..(MaxConvs + 1)

\* Participant list of the i-th conversation the store is seeded with.
SeedPair(i) ==
  CASE i % 3 = 1 -> <<"u1", "u2">>
    [] i % 3 = 2 -> <<"u3", "u2">>
    [] OTHER -> <<"u1", "u3">>

VARIABLES
  \* ---- socketHandler.js (in-memory, process wide)
  userSockets,          \* Map userId -> Set(socketId)
  socketConversations,  \* Map socketId -> Set(conversationId)
  rooms,                \* adapter: <<socketId, conversationId>> room members
  sockState,            \* each socket: fresh / admitted / refused / connected / closed
  socketData,           \* socket.data.userId set by the handshake
  joins,                \* conversations:join handlers suspended at their await
  lastJoinReply,        \* the latest reply (ack or event) to a join request
  \* ---- durable store
  conversations,        \* Conversation collection, in insertion order
  updatedAt,            \* updatedAt of each conversation (logical time)
  messages,             \* Message collection, in insertion order
  messageReads,         \* MessageRead collection, in insertion order
  notifications,        \* Notification collection, in insertion order
  \* ---- request handlers and what they push
  req,                  \* the service calls in progress, one per slot
  lastResult,           \* what the latest step returned or threw, if anything
  pushed,               \* events the latest step handed to the socket layer
  marked,               \* notifications a markNotificationRead call has saved
  emittedMessages,      \* ids of the messages broadcast so far, in emit order
  \* ---- environment
  clock                 \* the time `new Date()` returns (logical)

socketVars == <<userSockets, socketConversations, rooms, sockState, socketData,
                joins, lastJoinReply>>
storeVars == <<conversations, updatedAt, messages, messageReads>>
notifVars == <<notifications, req, lastResult, pushed, marked>>
historyVars == <<emittedMessages>>
vars == <<socketVars, storeVars, notifVars, historyVars, clock>>

(***************************************************************************)
(* Maps are functions whose DOMAIN is the set of keys present.             *)
(***************************************************************************)
EmptyMap == [k \in {} |-> {}]
MapSet(m, k, v) == [x \in (DOMAIN m) \cup {k} |-> IF x = k THEN v ELSE m[x]]
MapDelete(m, k) == [x \in (DOMAIN m) \ {k} |-> m[x]]
SeqToSet(s) == {s[i] : i \in 1..Len(s)}

(***************************************************************************)
(* socketHandler.js helpers                                                *)
(***************************************************************************)
\* toConversationIdString: a falsy id gives null (0), otherwise the string.
toConversationIdString(raw) == IF raw = 0 THEN 0 ELSE raw

\* mongoose.Types.ObjectId.isValid on the normalised id.
IsValidObjectId(id) == id \in WellFormedIds

\* conversationRoom: null (0) for a null id, else the room of the id.
conversationRoom(conversationId) ==
  LET id == toConversationIdString(conversationId) IN IF id = 0 THEN 0 ELSE id

\* registerSocket(userId, socketId)
registerSocketUnderEveryUser(m, userId, socketId) ==
  [x \in (DOMAIN m) \cup {userId} |->
     (IF x \in DOMAIN m THEN m[x] ELSE {}) \cup {socketId}]
registerSocket(m, userId, socketId) ==
  IF userId = NoUser THEN m
  ELSE LET existing == IF userId \in DOMAIN m THEN m[userId] ELSE {}
       IN MapSet(m, userId, existing \cup {socketId})

\* removeSocket(userId, socketId)
removeSocketKeepEntry(m, userId, socketId) ==
  IF userId = NoUser \/ userId \notin DOMAIN m THEN m
  ELSE MapSet(m, userId, m[userId] \ {socketId})
removeSocket(m, userId, socketId) ==
  IF userId = NoUser \/ userId \notin DOMAIN m THEN m
  ELSE LET sockets == m[userId] \ {socketId}
       IN IF sockets = {} THEN MapDelete(m, userId) ELSE MapSet(m, userId, sockets)

\* ensureSocketConversationMap(socketId).add(conversationId)
ensureSocketConversationMapAdd(m, socketId, conversationId) ==
  LET joined == IF socketId \in DOMAIN m THEN m[socketId] ELSE {}
  IN MapSet(m, socketId, joined \cup {conversationId})

\* Conversation.findById(id).select('participants').lean(): the participant
\* list, or <<>> for null.
FindConversationById(id) ==
  IF id \in 1..Len(conversations) THEN conversations[id] ELSE <<>>

\* conversation.participants.some(p => p.toString() === userId)
participantMatchNoCheck(participants, userId) == TRUE
participantMatch(participants, userId) ==
  \E i \in 1..Len(participants) : participants[i] = userId

(***************************************************************************)
(* Handshake middleware io.use(...) and the 'connection' handler.          *)
(***************************************************************************)
\* User.findById(decoded.id).select('_id role isActive isSoftDeleted')
UserDirectory(id) ==
  [exists |-> id # "u_gone",
   isActive |-> id # "u_inactive",
   isSoftDeleted |-> id = "u_deleted"]

Credentials ==
  {[kind |-> "none", user |-> NoUser], [kind |-> "bad", user |-> NoUser]}
  \cup {[kind |-> "token", user |-> u] : u \in Identities}

\* TRUE iff the middleware calls next() without an error.
HandshakeAcceptsAnyToken(cred, lookupOk) == cred.kind = "token" /\ lookupOk
HandshakeAccepts(cred, lookupOk) ==
  /\ cred.kind = "token"                   \* token present and verifyToken ok
  /\ lookupOk                              \* User.findById did not throw
  /\ LET user == UserDirectory(cred.user)
     IN user.exists /\ user.isActive /\ ~user.isSoftDeleted

\* Socket ids are handed out in arrival order.
Handshake(s) ==
  /\ sockState[s] = "fresh"
  /\ \A t \in Sockets : t < s => sockState[t] # "fresh"
  /\ \E cred \in Credentials, lookupOk \in BOOLEAN :
       IF HandshakeAccepts(cred, lookupOk)
       THEN /\ socketData' = [socketData EXCEPT ![s] = cred.user]
            /\ sockState' = [sockState EXCEPT ![s] = "admitted"]
       ELSE /\ sockState' = [sockState EXCEPT ![s] = "refused"]
            /\ UNCHANGED socketData
  /\ UNCHANGED <<userSockets, socketConversations, rooms, joins,
                 lastJoinReply, storeVars, notifVars, historyVars, clock>>

Connection(s) ==
  /\ sockState[s] = "admitted"
  /\ IF socketData[s] = NoUser
     THEN /\ sockState' = [sockState EXCEPT ![s] = "closed"]
          /\ UNCHANGED userSockets
     ELSE /\ userSockets' = registerSocket(userSockets, socketData[s], s)
          /\ sockState' = [sockState EXCEPT ![s] = "connected"]
  /\ UNCHANGED <<socketConversations, rooms, socketData, joins,
                 lastJoinReply, storeVars, notifVars, historyVars, clock>>

(***************************************************************************)
(* socket.on('conversations:join')                                         *)
(***************************************************************************)
\* The reply goes to the ack callback when the client gave one and is
\* emitted as conversations:joined / conversations:joinError otherwise; its
\* content is the same.  `truth` is not part of the reply: it records what
\* the store holds for the request, for the properties below.
NoReply == [success |-> FALSE, error |-> "", truth |-> "none"]
JoinReply(ok, err, truth) == [success |-> ok, error |-> err, truth |-> truth]

IsParticipant(userId, conversationId) ==
  /\ conversationId \in 1..Len(conversations)
  /\ userId \in SeqToSet(conversations[conversationId])

JoinTruth(j, queryOk) ==
  IF ~queryOk THEN "error"
  ELSE IF j.conv \notin 1..Len(conversations) THEN "missing"
  ELSE IF IsParticipant(socketData[j.sock], j.conv) THEN "participant"
  ELSE "nonparticipant"

\* The message of the error thrown inside the try block after the await, ""
\* when nothing is thrown.
JoinError(queryOk, doc, userId) ==
  IF ~queryOk THEN "store error"
  ELSE IF doc = <<>> THEN "Conversation not found"
  ELSE IF ~participantMatch(doc, userId) THEN "Not authorized to join conversation"
  ELSE ""

\* Up to the await: id normalisation and validation.
JoinBegin(s) ==
  /\ sockState[s] = "connected"
  /\ Cardinality(joins) < MaxJoins
  /\ \E raw \in RawIds :
       LET conversationId == toConversationIdString(raw)
           j == [sock |-> s, conv |-> conversationId]
       IN IF conversationId = 0 \/ ~IsValidObjectId(conversationId)
          THEN /\ lastJoinReply' =
                    JoinReply(FALSE, "Invalid conversation ID", "invalid")
               /\ UNCHANGED joins
          ELSE /\ joins' = joins \cup {j}
               /\ UNCHANGED lastJoinReply
  /\ UNCHANGED <<userSockets, socketConversations, rooms, sockState, socketData,
                 storeVars, notifVars, historyVars, clock>>

\* After the await: Conversation.findById has failed (the catch block replies
\* with the store's error) or has given the document: membership check, room
\* join, reply.  Participant lists never change and conversations are never
\* removed, so the document is read here, when the handler resumes.
JoinResume(j) ==
  /\ j \in joins
  /\ joins' = joins \ {j}
  /\ \E queryOk \in BOOLEAN :
     LET userId == socketData[j.sock]
         room == conversationRoom(j.conv)
         doc == FindConversationById(j.conv)
         error == JoinError(queryOk, doc, userId)
     IN IF error # ""
        THEN /\ lastJoinReply' = JoinReply(FALSE, error, JoinTruth(j, queryOk))
             /\ UNCHANGED <<rooms, socketConversations>>
        ELSE /\ IF room # 0
                THEN /\ rooms' = rooms \cup {<<j.sock, room>>}
                     /\ socketConversations' =
                          ensureSocketConversationMapAdd(socketConversations,
                                                         j.sock, j.conv)
                ELSE UNCHANGED <<rooms, socketConversations>>
             /\ lastJoinReply' = JoinReply(TRUE, "", JoinTruth(j, queryOk))
  /\ UNCHANGED <<userSockets, sockState, socketData, storeVars, notifVars, historyVars, clock>>

(***************************************************************************)
(* socket.on('conversations:leave')                                        *)
(***************************************************************************)
Leave(s) ==
  /\ sockState[s] = "connected"
  /\ \E raw \in RawIds :
       LET conversationId == toConversationIdString(raw)
           room == conversationRoom(conversationId)
       IN IF room # 0
          THEN /\ rooms' = rooms \ {<<s, room>>}
               /\ IF s \in DOMAIN socketConversations
                  THEN LET joined == socketConversations[s] \ {conversationId}
                       IN socketConversations' =
                            IF joined = {}
                            THEN MapDelete(socketConversations, s)
                            ELSE MapSet(socketConversations, s, joined)
                  ELSE UNCHANGED socketConversations
          ELSE UNCHANGED <<rooms, socketConversations>>
  /\ UNCHANGED <<userSockets, sockState, socketData, joins,
                 lastJoinReply, storeVars, notifVars, historyVars, clock>>

(***************************************************************************)
(* socket.on('disconnect').  The transport has already taken the socket    *)
(* out of all its rooms when the handler runs.                             *)
(***************************************************************************)
Disconnect(s) ==
  /\ sockState[s] = "connected"
  /\ userSockets' = removeSocket(userSockets, socketData[s], s)
  /\ rooms' = {m \in rooms : m[1] # s}
  /\ socketConversations' =
       IF s \in DOMAIN socketConversations
       THEN MapDelete(socketConversations, s)
       ELSE socketConversations
  /\ sockState' = [sockState EXCEPT ![s] = "closed"]
  /\ UNCHANGED <<socketData, joins, lastJoinReply, storeVars, notifVars, historyVars, clock>>

(***************************************************************************)
(* emitToUser and getOnlineSockets.  The module has been initialised       *)
(* (ioInstance is set) before any connection arrives.                      *)
(***************************************************************************)
RegistryUsers == Users \cup {NoUser}

\* The sockets emitToUser calls ioInstance.to(socketId).emit(...) for.
emitToEverySocket(userId) == UNION {userSockets[u] : u \in DOMAIN userSockets}
emitToUserSockets(userId) ==
  IF userId = NoUser THEN {}
  ELSE IF userId \notin DOMAIN userSockets \/ userSockets[userId] = {} THEN {}
  ELSE userSockets[userId]

\* The value emitToUser returns.
emitToUserReturns(userId) ==
  /\ userId # NoUser
  /\ userId \in DOMAIN userSockets
  /\ userSockets[userId] # {}

\* getOnlineSockets: Array.from(sockets) or [], as the set of its elements.
getOnlineSockets(userId) ==
  IF userId = NoUser THEN {}
  ELSE IF userId \in DOMAIN userSockets THEN userSockets[userId] ELSE {}

\* A caller on the server runs emitToUser(userId, event, payload); nothing
\* in it throws or awaits.
EmitToUser ==
  /\ \E userId \in RegistryUsers :
       lastResult' = [op |-> "emitToUser", status |-> 0, user |-> userId,
                      sockets |-> emitToUserSockets(userId),
                      returned |-> emitToUserReturns(userId)]
  /\ UNCHANGED <<notifications, req, pushed, marked, socketVars, storeVars,
                 historyVars, clock>>

GetOnlineSockets ==
  /\ \E userId \in RegistryUsers :
       lastResult' = [op |-> "getOnlineSockets", status |-> 0,
                      user |-> userId,
                      sockets |-> getOnlineSockets(userId)]
  /\ UNCHANGED <<notifications, req, pushed, marked, socketVars, storeVars,
                 historyVars, clock>>

(***************************************************************************)
(* Notification service (notificationService).  A slot of `req` holds one  *)
(* call from its start to its result; an idle slot takes the next call.    *)
(* Each step of a call is the store operation it awaited followed by the   *)
(* code up to the next await.                                              *)
(***************************************************************************)
Reqs == 1..MaxReqs
Idle == [op |-> "idle"]

\* new AppError(message, status), and the outcome when nothing is thrown.
AppError(message, status) == [status |-> status, error |-> message]
NoError == [status |-> 200, error |-> ""]
NoResult == [op |-> "none", status |-> 0]
NotifUsers == {"u1", "u2"}

\* Notification ids: 0 is a malformed id, 1..MaxNotifs are well-formed
\* ObjectIds; the id of a stored notification is its index.
NotifRawIds == 0..MaxNotifs

\* NOTIFICATION_TYPES / NOTIFICATION_PRIORITIES and a value outside each.
NotificationTypeValues == {"message_received", "system_maintenance"}
NotificationPriorityValues == {"normal"}

\* Slots are interchangeable: a new call takes the lowest idle one.
FreeSlot(r) ==
  /\ req[r] = Idle
  /\ \A q \in Reqs : q < r => req[q] # Idle

\* No call is between two of its awaits.
NoCallInProgress == \A q \in Reqs : req[q] = Idle

\* The call in slot r returns (or throws); the slot is free again.
Return(r, result) ==
  /\ req' = [req EXCEPT ![r] = Idle]
  /\ lastResult' = result

\* Notification.countDocuments({ user, isRead: false })
countDocumentsOfUser(userId) ==
  Cardinality({i \in 1..Len(notifications) :
                 /\ ~notifications[i].deleted
                 /\ notifications[i].user = userId})
countUnread(userId) ==
  Cardinality({i \in 1..Len(notifications) :
                 /\ ~notifications[i].deleted
                 /\ notifications[i].user = userId
                 /\ ~notifications[i].isRead})

\* Notification.findOne({ _id: notificationId, user: user._id }) finds a document.
NotificationFoundAnyOwner(notificationId, userId) ==
  /\ notificationId \in 1..Len(notifications)
  /\ ~notifications[notificationId].deleted
NotificationFound(notificationId, userId) ==
  /\ notificationId \in 1..Len(notifications)
  /\ ~notifications[notificationId].deleted
  /\ notifications[notificationId].user = userId

\* The document Notification.create inserts (schema defaults applied).
NewNotification(userId) ==
  [user |-> userId, isRead |-> FALSE, readAt |-> 0, deleted |-> FALSE]

\* emitNotificationCreated / emitUnreadCount as handed to emitToUser.
emitNotificationCreated(userId, notificationId) ==
  [event |-> "notifications:new", user |-> userId, data |-> notificationId]
emitUnreadCount(userId, count) ==
  [event |-> "notifications:unreadCount", user |-> userId, data |-> count]

\* emitSafe (notificationService) and safeEmit (conversationController) call
\* the emitter inside try/catch.  When the emitter throws, the failure is
\* logged and nothing has been handed to the socket layer: `pushed` then
\* holds EmitThrew, and CountFailed when the count query of
\* broadcastUnreadCount failed.  Throws tells whether the error reaches the
\* caller of emitSafe / safeEmit.
EmitThrew == [event |-> "emit threw"]
CountFailed == [event |-> "count failed"]
emitSafe(emitOk, events) == IF emitOk THEN events ELSE <<EmitThrew>>
emitSafeThrows(emitOk) == FALSE
safeEmitUncaught(emitOk) == ~emitOk
safeEmitThrows(emitOk) == FALSE

\* broadcastUnreadCount catches the failure of its count query: whether the
\* error reaches createNotification.
broadcastUnreadCountThrows(storeOk) == FALSE

\* broadcastUnreadCount after its await, as seen by the socket layer.
broadcastUnreadCount(userId, storeOk, emitOk) ==
  IF storeOk
  THEN emitSafe(emitOk, <<emitUnreadCount(userId, countUnread(userId))>>)
  ELSE <<CountFailed>>

\* The checks of createNotification before the insert; "" when they pass.
CreateValidationErrorNoEnums(userId, hasTitleAndMessage, notificationType, priority) ==
  IF userId = NoUser THEN "userId is required to create a notification"
  ELSE IF ~hasTitleAndMessage THEN "Notification title and message are required"
  ELSE ""
CreateValidationError(userId, hasTitleAndMessage, notificationType, priority) ==
  IF userId = NoUser THEN "userId is required to create a notification"
  ELSE IF ~hasTitleAndMessage THEN "Notification title and message are required"
  ELSE IF notificationType \notin NotificationTypeValues THEN "Invalid notification type"
  ELSE IF priority \notin NotificationPriorityValues THEN "Invalid notification priority"
  ELSE ""

\* The type and priority a caller passes: the defaults of the parameter
\* list, and a value outside each enumeration.
CreateTypeInputs == {"system_maintenance", "bogus"}
CreatePriorityInputs == {"normal", "bogus"}

\* What a createNotification call that ends before its write returns; the
\* type and priority it was given are kept with the result.
CreateFailure(status, error, notificationType, priority) ==
  [op |-> "create", status |-> status, error |-> error,
   notificationType |-> notificationType, priority |-> priority]

\* createNotification through `await Notification.create`, then
\* emitSafe(emitNotificationCreated) and the call of broadcastUnreadCount up
\* to `await Notification.countDocuments`.
CreatePersist(r) ==
  /\ FreeSlot(r)
  /\ \E userId \in NotifUsers \cup {NoUser}, hasTitleAndMessage \in BOOLEAN,
        notificationType \in CreateTypeInputs,
        priority \in CreatePriorityInputs :
       LET error == CreateValidationError(userId, hasTitleAndMessage,
                                          notificationType, priority)
           id == Len(notifications) + 1
       IN IF error # ""
          THEN /\ Return(r, CreateFailure(400, error, notificationType, priority))
               /\ pushed' = <<>>
               /\ UNCHANGED notifications
          ELSE \/ /\ Return(r, CreateFailure(500, "store error",
                                             notificationType, priority))
                  /\ pushed' = <<>>
                  /\ UNCHANGED notifications
               \/ /\ Len(notifications) < MaxNotifs
                  /\ notifications' =
                       Append(notifications, NewNotification(userId))
                  /\ \E emitOk \in BOOLEAN :
                       /\ pushed' = emitSafe(emitOk,
                                      <<emitNotificationCreated(userId, id)>>)
                       /\ IF emitSafeThrows(emitOk)
                          THEN Return(r, [op |-> "create", status |-> 500,
                                          error |-> "emit failed",
                                          user |-> userId, id |-> id])
                          ELSE /\ req' = [req EXCEPT ![r] =
                                    [op |-> "create", pc |-> "count",
                                     user |-> userId, id |-> id,
                                     notificationType |-> notificationType,
                                     priority |-> priority]]
                               /\ lastResult' = NoResult
  /\ UNCHANGED <<marked, socketVars, storeVars, historyVars, clock>>

\* broadcastUnreadCount after its await: the count is pushed, or the failure
\* of the query is logged and swallowed; createNotification returns the
\* notification it stored.
CreateCount(r) ==
  /\ req[r].op = "create" /\ req[r].pc = "count"
  /\ \E storeOk \in BOOLEAN, emitOk \in BOOLEAN :
       /\ ~storeOk => emitOk
       /\ pushed' = broadcastUnreadCount(req[r].user, storeOk, emitOk)
       /\ IF emitSafeThrows(emitOk) \/ broadcastUnreadCountThrows(storeOk)
          THEN Return(r, [op |-> "create", status |-> 500,
                          error |-> "push failed", user |-> req[r].user,
                          id |-> req[r].id])
          ELSE Return(r, [op |-> "create", status |-> 201, error |-> "",
                          user |-> req[r].user, id |-> req[r].id,
                          pushedCount |-> storeOk, countFailed |-> ~storeOk])
  /\ UNCHANGED <<notifications, marked, socketVars, storeVars, historyVars, clock>>

\* The count query of broadcastUnreadCount as the store sees it:
\* Notification.countDocuments is evaluated while the call awaits, and its
\* result (-1 for a failed query) is in flight until the call resumes.
CreateCountQuery(r) ==
  /\ req[r].op = "create" /\ req[r].pc = "count"
  /\ \E storeOk \in BOOLEAN :
       req' = [req EXCEPT ![r] =
                 [count |-> IF storeOk THEN countUnread(req[r].user) ELSE -1]
                 @@ [req[r] EXCEPT !.pc = "countResult"]]
  /\ lastResult' = NoResult
  /\ pushed' = <<>>
  /\ UNCHANGED <<notifications, marked, socketVars, storeVars, historyVars,
                 clock>>

\* broadcastUnreadCount resumes with the result of its query:
\* emitSafe(emitUnreadCount, userId, count), or the logged failure; then
\* createNotification returns the notification it stored.
CreateCountResult(r) ==
  /\ req[r].op = "create" /\ req[r].pc = "countResult"
  /\ \E emitOk \in BOOLEAN :
       pushed' = IF req[r].count < 0 THEN <<CountFailed>>
                 ELSE emitSafe(emitOk,
                        <<emitUnreadCount(req[r].user, req[r].count)>>)
  /\ Return(r, [op |-> "create", status |-> 201, error |-> "",
                user |-> req[r].user, id |-> req[r].id,
                pushedCount |-> req[r].count >= 0,
                countFailed |-> req[r].count < 0])
  /\ UNCHANGED <<notifications, marked, socketVars, storeVars, historyVars,
                 clock>>

\* What the store holds for a notification id and a caller.
NotificationTruth(notificationId, userId) ==
  IF notificationId = 0 THEN "invalid"
  ELSE IF \/ notificationId \notin 1..Len(notifications)
          \/ notifications[notificationId].deleted THEN "missing"
  ELSE IF notifications[notificationId].user = userId THEN "own"
  ELSE "foreign"

\* The error the single-notification operations throw after their lookup.
notificationLookupError(found) ==
  IF found THEN NoError ELSE AppError("Notification not found", 404)

\* The caller and what the store held for the caller and the id, kept with
\* a result.
Target(userId, notificationId) ==
  [user |-> userId, truth |-> NotificationTruth(notificationId, userId)]

\* notification.save(): only the paths whose value differs from the loaded
\* document are written, onto the document the store holds now.
saveDocument(stored, loaded, edited) ==
  [stored EXCEPT !.isRead = IF edited.isRead # loaded.isRead
                            THEN edited.isRead ELSE @,
                 !.readAt = IF edited.readAt # loaded.readAt
                            THEN edited.readAt ELSE @]

\* save() throws when it has paths to write and its document is gone.
saveFails(stored, loaded, edited) == stored.deleted /\ edited # loaded

\* markNotificationRead through `await Notification.findOne`, then
\* isRead = true, readAt = new Date(), up to `await save()`.
MarkReadFind(r) ==
  /\ FreeSlot(r)
  /\ \E userId \in NotifUsers, notificationId \in NotifRawIds :
       LET response ==
             notificationLookupError(NotificationFound(notificationId, userId))
       IN IF notificationId = 0
          THEN Return(r, [op |-> "markRead", status |-> 400,
                          error |-> "Invalid notification ID"]
                         @@ Target(userId, notificationId))
          ELSE IF response # NoError
          THEN Return(r, [op |-> "markRead"] @@ response
                         @@ Target(userId, notificationId))
          ELSE /\ req' = [req EXCEPT ![r] =
                            [op |-> "markRead", pc |-> "save", user |-> userId,
                             id |-> notificationId,
                             truth |-> NotificationTruth(notificationId, userId),
                             loaded |-> notifications[notificationId],
                             readAt |-> clock]]
               /\ lastResult' = NoResult
  /\ pushed' = <<>>
  /\ UNCHANGED <<notifications, marked, socketVars, storeVars, historyVars, clock>>

\* The document as markNotificationRead edits it before save().
SaveAsReadKeepFlag(loaded, readAt) == [loaded EXCEPT !.readAt = readAt]
SaveAsRead(loaded, readAt) ==
  [loaded EXCEPT !.isRead = TRUE, !.readAt = readAt]

\* save(), then the result is returned.  Nothing is pushed.
MarkReadSave(r) ==
  /\ req[r].op = "markRead" /\ req[r].pc = "save"
  /\ \E storeOk \in BOOLEAN :
       LET edited == SaveAsRead(req[r].loaded, req[r].readAt)
           stored == notifications[req[r].id]
       IN IF storeOk /\ ~saveFails(stored, req[r].loaded, edited)
          THEN /\ notifications' =
                    [notifications EXCEPT ![req[r].id] =
                       saveDocument(@, req[r].loaded, edited)]
               /\ marked' = marked \cup {req[r].id}
               /\ Return(r, [op |-> "markRead", status |-> 200,
                             user |-> req[r].user, truth |-> req[r].truth,
                             pushedCount |-> FALSE, countFailed |-> FALSE])
          ELSE /\ Return(r, [op |-> "markRead", status |-> 500,
                             error |-> "store error", user |-> req[r].user,
                             truth |-> req[r].truth])
               /\ UNCHANGED <<notifications, marked>>
  /\ pushed' = <<>>
  /\ UNCHANGED <<socketVars, storeVars, historyVars, clock>>

\* updateNotification: the isRead value of the request body (absent, true or
\* false).  The other fields of the body do not bear on isRead and readAt.
UpdateIsReadInputs == {"undefined", "true", "false"}

\* The document as updateNotification edits it before save().
applyUpdate(loaded, isReadInput, now) ==
  LET isRead == IF isReadInput = "undefined" THEN loaded.isRead
                ELSE isReadInput = "true"
  IN [loaded EXCEPT
        !.isRead = isRead,
        !.readAt = IF ~isRead THEN 0
                   ELSE IF loaded.readAt = 0 THEN now ELSE loaded.readAt]

\* updateNotification through `await Notification.findOne`, the field
\* assignments and checks (a type outside the enumeration is refused), up to
\* `await save()`.
UpdateFind(r) ==
  /\ FreeSlot(r)
  /\ \E userId \in NotifUsers, notificationId \in NotifRawIds :
       LET response ==
             notificationLookupError(NotificationFound(notificationId, userId))
       IN IF notificationId = 0
          THEN Return(r, [op |-> "update", status |-> 400,
                          error |-> "Invalid notification ID"]
                         @@ Target(userId, notificationId))
          ELSE IF response # NoError
          THEN Return(r, [op |-> "update"] @@ response
                         @@ Target(userId, notificationId))
          ELSE \/ Return(r, [op |-> "update", status |-> 400,
                             error |-> "Invalid notification type"]
                            @@ Target(userId, notificationId))
               \/ \E isReadInput \in UpdateIsReadInputs :
                    /\ req' = [req EXCEPT ![r] =
                         [op |-> "update", pc |-> "save", user |-> userId,
                          id |-> notificationId,
                          truth |-> NotificationTruth(notificationId, userId),
                          loaded |-> notifications[notificationId],
                          edited |-> applyUpdate(notifications[notificationId],
                                                 isReadInput, clock)]]
                    /\ lastResult' = NoResult
  /\ pushed' = <<>>
  /\ UNCHANGED <<notifications, marked, socketVars, storeVars, historyVars, clock>>

\* save() of updateNotification, then the result is returned.
UpdateSave(r) ==
  /\ req[r].op = "update" /\ req[r].pc = "save"
  /\ \E storeOk \in BOOLEAN :
       LET stored == notifications[req[r].id]
       IN IF storeOk /\ ~saveFails(stored, req[r].loaded, req[r].edited)
          THEN /\ notifications' =
                    [notifications EXCEPT ![req[r].id] =
                       saveDocument(@, req[r].loaded, req[r].edited)]
               /\ Return(r, [op |-> "update", status |-> 200, error |-> "",
                             user |-> req[r].user, truth |-> req[r].truth])
          ELSE /\ Return(r, [op |-> "update", status |-> 500,
                             error |-> "store error", user |-> req[r].user,
                             truth |-> req[r].truth])
               /\ UNCHANGED notifications
  /\ pushed' = <<>>
  /\ UNCHANGED <<marked, socketVars, storeVars, historyVars, clock>>

\* A removed document: its id is not given to another one.
Removed(n) ==
  [user |-> n.user, isRead |-> FALSE, readAt |-> 0, deleted |-> TRUE]

\* deleteNotification: Notification.findOneAndDelete({ _id, user }).
DeleteNotification(r) ==
  /\ FreeSlot(r)
  /\ \E userId \in NotifUsers, notificationId \in NotifRawIds,
        storeOk \in BOOLEAN :
       LET response ==
             notificationLookupError(NotificationFound(notificationId, userId))
       IN IF notificationId = 0
          THEN /\ Return(r, [op |-> "delete", status |-> 400,
                             error |-> "Invalid notification ID"]
                            @@ Target(userId, notificationId))
               /\ UNCHANGED notifications
          ELSE IF ~storeOk
          THEN /\ Return(r, [op |-> "delete", status |-> 500,
                             error |-> "store error"]
                            @@ Target(userId, notificationId))
               /\ UNCHANGED notifications
          ELSE IF response # NoError
          THEN /\ Return(r, [op |-> "delete"] @@ response
                            @@ Target(userId, notificationId))
               /\ UNCHANGED notifications
          ELSE /\ notifications' =
                    [notifications EXCEPT ![notificationId] = Removed(@)]
               /\ Return(r, [op |-> "delete", status |-> 200, error |-> ""]
                            @@ Target(userId, notificationId))
  /\ pushed' = <<>>
  /\ UNCHANGED <<marked, socketVars, storeVars, historyVars, clock>>

\* The documents a query { user } or { user, _id: { $in: ids } } matches.
MatchesBaseQuery(i, userId, ids) ==
  /\ ~notifications[i].deleted
  /\ notifications[i].user = userId
  /\ ids = {} \/ i \in ids

\* updateMany(filter, { $set: { isRead: true, readAt: new Date() } }) and
\* updateMany(filter, { $set: { isRead: false }, $unset: { readAt } }).
SetRead(n, now) == [n EXCEPT !.isRead = TRUE, !.readAt = now]
SetUnread(n) == [n EXCEPT !.isRead = FALSE, !.readAt = 0]

\* markAllNotificationsRead: updateMany({ user, isRead: false }, ...).
MarkAllNotificationsRead(r) ==
  /\ FreeSlot(r)
  /\ \E userId \in NotifUsers, storeOk \in BOOLEAN :
       LET matched == {i \in 1..Len(notifications) :
                         /\ MatchesBaseQuery(i, userId, {})
                         /\ ~notifications[i].isRead}
       IN IF storeOk
          THEN /\ notifications' =
                    [i \in 1..Len(notifications) |->
                       IF i \in matched THEN SetRead(notifications[i], clock)
                       ELSE notifications[i]]
               /\ Return(r, [op |-> "markAllRead", status |-> 200,
                             error |-> "", user |-> userId,
                             updated |-> Cardinality(matched)])
          ELSE /\ Return(r, [op |-> "markAllRead", status |-> 500,
                             error |-> "store error", user |-> userId])
               /\ UNCHANGED notifications
  /\ pushed' = <<>>
  /\ UNCHANGED <<marked, socketVars, storeVars, historyVars, clock>>

\* bulkNotificationAction: the actions of the request body, one of them
\* outside the accepted three.
BulkActions == {"mark_read", "mark_unread", "delete", "archive"}

\* The id lists of the request body: none (every notification of the
\* caller), one id, or all ids at once.
BulkIdInputs == {{}, NotifRawIds} \cup {{i} : i \in NotifRawIds}

\* What the bulk write makes of a matched document.
bulkWrite(action, n, now) ==
  CASE action = "delete" -> Removed(n)
    [] action = "mark_read" -> SetRead(n, now)
    [] OTHER -> SetUnread(n)

\* bulkNotificationAction: validation, then one deleteMany or updateMany
\* (which the store may fail).  foreign records that the request named a
\* stored notification of another user.
BulkNotificationAction(r) ==
  /\ FreeSlot(r)
  /\ \/ \E userId \in NotifUsers :
          /\ Return(r, [op |-> "bulk", user |-> userId]
                       @@ AppError("store error", 500))
          /\ UNCHANGED notifications
     \/ \E userId \in NotifUsers, action \in BulkActions,
           notificationIds \in BulkIdInputs :
          LET validIds == notificationIds \ {0}
              matched == {i \in 1..Len(notifications) :
                            MatchesBaseQuery(i, userId, validIds)}
              request == [op |-> "bulk", user |-> userId, action |-> action,
                          foreign |-> \E i \in validIds :
                                        NotificationTruth(i, userId) = "foreign"]
          IN IF action \notin {"mark_read", "mark_unread", "delete"}
             THEN /\ Return(r, request @@
                            AppError("Invalid action. Use mark_read, mark_unread, or delete", 400))
                  /\ UNCHANGED notifications
             ELSE IF notificationIds # {} /\ validIds = {}
             THEN /\ Return(r, request @@
                            AppError("No valid notification IDs provided", 400))
                  /\ UNCHANGED notifications
             ELSE /\ notifications' =
                       [i \in 1..Len(notifications) |->
                          IF i \in matched
                          THEN bulkWrite(action, notifications[i], clock)
                          ELSE notifications[i]]
                  /\ Return(r, request @@ NoError)
  /\ pushed' = <<>>
  /\ UNCHANGED <<marked, socketVars, storeVars, historyVars, clock>>

\* Time passes.
MaxClock == 2
Tick ==
  /\ clock < MaxClock
  /\ clock' = clock + 1
  /\ UNCHANGED <<socketVars, storeVars, notifVars, historyVars>>

\* getUnreadCount: the count query and the value returned.
UnreadCountQuery(r) ==
  /\ FreeSlot(r)
  /\ \E userId \in NotifUsers, storeOk \in BOOLEAN :
       IF storeOk
       THEN Return(r, [op |-> "unreadCount", status |-> 200, user |-> userId,
                       unreadCount |-> countUnread(userId)])
       ELSE Return(r, [op |-> "unreadCount", status |-> 500,
                       error |-> "store error"])
  /\ pushed' = <<>>
  /\ UNCHANGED <<notifications, marked, socketVars, storeVars, historyVars, clock>>

(***************************************************************************)
(* conversationController (part_015).  The handlers use the same slots,    *)
(* and a store operation that fails makes the handler throw (status 500).  *)
(***************************************************************************)
Failure(op, status, error) == [op |-> op, status |-> status, error |-> error]

\* conversation.participants.some(p => p._id.toString() === userId)
isParticipantAlways(participants, userId) == TRUE
isParticipant(participants, userId) ==
  \E i \in 1..Len(participants) : participants[i] = userId

\* toParticipantIds: the ids of the participants, falsy entries dropped.
toParticipantIds(participants) ==
  SeqToSet(SelectSeq(participants, LAMBDA p : p # NoUser))

firstParticipant(participants, userId) ==
  IF participants = <<>> THEN NoUser ELSE participants[1]

\* participants.map(id).find(id => id !== userId); NoUser for undefined.
RecipientOf(participants, userId) ==
  LET others == SelectSeq(participants, LAMBDA p : p # userId)
  IN IF others = <<>> THEN NoUser ELSE others[1]

\* emitConversationEvent(conversationId, userIds, event, payload)
emitConversationEvent(conversationId, userIds, event, payload) ==
  [event |-> event, conversation |-> conversationId, users |-> userIds,
   data |-> payload]

\* createMessage calls that have not inserted their message yet.
SendsBeforeWrite ==
  {r \in Reqs : req[r].op = "createMessage" /\ req[r].pc = "create"}

\* createMessage through `await Conversation.findById`, up to
\* `await Message.create`.
CreateMessageFind(r) ==
  /\ FreeSlot(r)
  /\ \E userId \in Users, raw \in RawIds, hasContent \in BOOLEAN,
        storeOk \in BOOLEAN :
       LET participants == FindConversationById(raw)
       IN IF raw = 0 \/ ~IsValidObjectId(raw)
          THEN Return(r, Failure("createMessage", 400, "conversation is required"))
          ELSE IF ~hasContent
          THEN Return(r, Failure("createMessage", 400,
                                 "Message content is required"))
          ELSE IF ~storeOk
          THEN Return(r, Failure("createMessage", 500, "store error"))
          ELSE IF participants = <<>> \/ ~isParticipant(participants, userId)
          THEN Return(r, Failure("createMessage", 404, "Conversation not found"))
          ELSE /\ Len(messages) + Cardinality(SendsBeforeWrite) < MaxMsgs
               /\ req' = [req EXCEPT ![r] =
                            [op |-> "createMessage", pc |-> "create",
                             user |-> userId, conversation |-> raw,
                             message |-> 0]]
               /\ lastResult' = NoResult
  /\ pushed' = <<>>
  /\ UNCHANGED <<conversations, updatedAt, messages, messageReads,
                 notifications, marked, socketVars, historyVars, clock>>

\* Message.create, up to `await Conversation.findByIdAndUpdate`.
CreateMessageInsert(r) ==
  /\ req[r].op = "createMessage" /\ req[r].pc = "create"
  /\ \E storeOk \in BOOLEAN :
       IF storeOk
       THEN /\ messages' = Append(messages,
                 [conversation |-> req[r].conversation, sender |-> req[r].user])
            /\ req' = [req EXCEPT ![r].pc = "touch",
                                  ![r].message = Len(messages) + 1]
            /\ lastResult' = NoResult
       ELSE /\ Return(r, Failure("createMessage", 500, "store error"))
            /\ UNCHANGED messages
  /\ pushed' = <<>>
  /\ UNCHANGED <<conversations, updatedAt, messageReads, notifications, marked,
                 socketVars, historyVars, clock>>

\* findByIdAndUpdate(conversation._id, { updatedAt: new Date() }), up to
\* `await Message.findById(...).populate(...)`.  The date was taken when the
\* message had just been created, so it is modelled by the message's id.
CreateMessageTouch(r) ==
  /\ req[r].op = "createMessage" /\ req[r].pc = "touch"
  /\ \E storeOk \in BOOLEAN :
       IF storeOk
       THEN /\ updatedAt' = [updatedAt EXCEPT ![req[r].conversation] =
                               req[r].message]
            /\ req' = [req EXCEPT ![r].pc = "populate"]
            /\ lastResult' = NoResult
       ELSE /\ Return(r, Failure("createMessage", 500, "store error"))
            /\ UNCHANGED updatedAt
  /\ pushed' = <<>>
  /\ UNCHANGED <<conversations, messages, messageReads, notifications, marked,
                 socketVars, historyVars, clock>>

\* The populated message arrives: conversations:message and
\* conversations:updated are emitted, each inside safeEmit, then
\* createNotification is called and runs up to `await Notification.create`.
CreateMessagePopulate(r) ==
  /\ req[r].op = "createMessage" /\ req[r].pc = "populate"
  /\ \E storeOk \in BOOLEAN, messageOk \in BOOLEAN, updatedOk \in BOOLEAN :
       /\ ~storeOk => (messageOk /\ updatedOk)
       /\ IF storeOk
          THEN LET participants == conversations[req[r].conversation]
                   participantIds == toParticipantIds(participants)
               IN /\ pushed' =
                       emitSafe(messageOk,
                         <<emitConversationEvent(req[r].conversation,
                             participantIds, "conversations:message",
                             req[r].message)>>)
                       \o emitSafe(updatedOk,
                            <<emitConversationEvent(req[r].conversation,
                                participantIds, "conversations:updated",
                                req[r].message)>>)
                  /\ emittedMessages' =
                       IF messageOk THEN Append(emittedMessages, req[r].message)
                       ELSE emittedMessages
                  /\ IF safeEmitThrows(messageOk) \/ safeEmitThrows(updatedOk)
                     THEN Return(r, Failure("createMessage", 500, "emit failed"))
                     ELSE IF RecipientOf(participants, req[r].user) = NoUser
                     THEN Return(r, [op |-> "createMessage", status |-> 201,
                                     user |-> req[r].user,
                                     conversation |-> req[r].conversation,
                                     message |-> req[r].message])
                     ELSE /\ req' = [req EXCEPT ![r].pc = "notify"]
                          /\ lastResult' = NoResult
          ELSE /\ Return(r, Failure("createMessage", 500, "store error"))
               /\ pushed' = <<>>
               /\ UNCHANGED emittedMessages
  /\ UNCHANGED <<conversations, updatedAt, messages, messageReads,
                 notifications, marked, socketVars, clock>>

\* Notification.create of the nested createNotification: on success
\* notifications:new is pushed and broadcastUnreadCount awaits its count; a
\* failure is thrown to createMessage, which ignores it and responds.
CreateMessageNotify(r) ==
  /\ req[r].op = "createMessage" /\ req[r].pc = "notify"
  /\ \E storeOk \in BOOLEAN, emitOk \in BOOLEAN :
       LET recipientId == RecipientOf(conversations[req[r].conversation],
                                      req[r].user)
           response == [op |-> "createMessage", status |-> 201,
                        user |-> req[r].user,
                        conversation |-> req[r].conversation,
                        message |-> req[r].message]
       IN /\ ~storeOk => emitOk
          /\ IF storeOk
             THEN /\ notifications' = Append(notifications,
                                             NewNotification(recipientId))
                  /\ pushed' = emitSafe(emitOk,
                                 <<emitNotificationCreated(recipientId,
                                     Len(notifications) + 1)>>)
                  /\ IF emitSafeThrows(emitOk)
                     THEN Return(r, response)
                     ELSE /\ req' = [req EXCEPT ![r].pc = "notifyCount"]
                          /\ lastResult' = NoResult
             ELSE /\ Return(r, response)
                  /\ pushed' = <<>>
                  /\ UNCHANGED notifications
  /\ UNCHANGED <<conversations, updatedAt, messages, messageReads, marked,
                 socketVars, historyVars, clock>>

\* broadcastUnreadCount after its await, then res.status(201).
CreateMessageNotifyCount(r) ==
  /\ req[r].op = "createMessage" /\ req[r].pc = "notifyCount"
  /\ \E storeOk \in BOOLEAN, emitOk \in BOOLEAN :
       LET recipientId == RecipientOf(conversations[req[r].conversation],
                                      req[r].user)
       IN /\ ~storeOk => emitOk
          /\ pushed' = broadcastUnreadCount(recipientId, storeOk, emitOk)
  /\ Return(r, [op |-> "createMessage", status |-> 201, user |-> req[r].user,
                conversation |-> req[r].conversation,
                message |-> req[r].message])
  /\ UNCHANGED <<conversations, updatedAt, messages, messageReads,
                 notifications, marked, socketVars, historyVars, clock>>

(***************************************************************************)
(* markConversationRead                                                     *)
(***************************************************************************)
\* The duplicate-key error code the handler tolerates.
DuplicateKey == 11000

\* Message.find({ conversation, sender: { $ne: userId } }).select('_id')
MessagesOfConversation(conversationId, userId) ==
  {i \in 1..Len(messages) : messages[i].conversation = conversationId}
MessagesNotSentBy(conversationId, userId) ==
  {i \in 1..Len(messages) :
     messages[i].conversation = conversationId /\ messages[i].sender # userId}

\* MessageRead.find({ user, message: { $in: messageIds } }) as a set of
\* message ids (existingSet in markConversationRead, readSet in the listings).
ReadSet(userId, messageIds) ==
  {messageReads[k].message :
     k \in {n \in 1..Len(messageReads) :
              messageReads[n].user = userId
              /\ messageReads[n].message \in messageIds}}

\* messageIds.filter(id => !existingSet.has(id))
unreadMessagesAll(messageIds, existingSet) == messageIds
unreadMessages(messageIds, existingSet) == messageIds \ existingSet

\* formatMessage(...).isRead for the message with this id and this reader.
formatMessageIsRead(messageId, readSet, currentUserId) ==
  messages[messageId].sender = currentUserId \/ messageId \in readSet

\* The ids of a set in ascending order (the order of the payload).
RECURSIVE Ascending(_)
Ascending(ids) ==
  IF ids = {} THEN <<>>
  ELSE LET m == CHOOSE x \in ids : \A y \in ids : x <= y
       IN <<m>> \o Ascending(ids \ {m})

\* A document of the payload collides with the unique index
\* { message: 1, user: 1 }.
CollidesNever(reads, doc) == FALSE
Collides(reads, doc) == \E k \in 1..Len(reads) : reads[k] = doc

\* MessageRead.insertMany(payload, { ordered: false }): every document that
\* does not collide is inserted, the others are reported as duplicates.
RECURSIVE insertMany(_, _)
insertMany(reads, payload) ==
  IF payload = <<>> THEN reads
  ELSE insertMany(IF Collides(reads, Head(payload)) THEN reads
                  ELSE Append(reads, Head(payload)),
                  Tail(payload))

\* The code of the error insertMany raises, 0 for none.
insertManyError(reads, payload) ==
  IF \E k \in 1..Len(payload) : Collides(reads, payload[k])
  THEN DuplicateKey ELSE 0

\* catch (error) { if (error.code !== 11000) throw error; }
Rethrown(code) == code # 0 /\ code # DuplicateKey

McrResult(r, status, error, code, markedCount, inserted) ==
  [op |-> "markConversationRead", status |-> status, error |-> error,
   user |-> req[r].user, conversation |-> req[r].conversation,
   markedCount |-> markedCount, inserted |-> inserted, insertError |-> code,
   existing |-> req[r].existing,
   repeat |-> /\ req[r].repeatOf >= 0
              /\ Len(messages) = req[r].repeatOf]

\* markConversationRead through `await Conversation.findById`, up to
\* `await Message.find`.  existing and repeatOf remember what the call found
\* when it began: the messages of others, and whether the call that
\* returned last was the same user's successful pass over this conversation
\* (then the number of messages stored when that pass began).
MarkConversationReadFind(r) ==
  /\ FreeSlot(r)
  /\ \E userId \in Users, raw \in RawIds, storeOk \in BOOLEAN :
       LET participants == FindConversationById(raw)
       IN IF ~IsValidObjectId(raw)
          THEN Return(r, Failure("markConversationRead", 400,
                                 "Invalid conversation ID"))
          ELSE IF ~storeOk
          THEN Return(r, Failure("markConversationRead", 500, "store error"))
          ELSE IF participants = <<>> \/ ~isParticipant(participants, userId)
          THEN Return(r, Failure("markConversationRead", 404,
                                 "Conversation not found"))
          ELSE /\ req' = [req EXCEPT ![r] =
                    [op |-> "markConversationRead", pc |-> "messages",
                     user |-> userId, conversation |-> raw,
                     messageIds |-> {}, unread |-> {},
                     existing |-> MessagesNotSentBy(raw, userId),
                     repeatOf |->
                       IF /\ lastResult.op = "markConversationRead"
                          /\ lastResult.status = 200
                          /\ lastResult.user = userId
                          /\ lastResult.conversation = raw
                       THEN lastResult.seen ELSE -1,
                     seen |-> Len(messages)]]
               /\ lastResult' = NoResult
  /\ pushed' = <<>>
  /\ UNCHANGED <<conversations, updatedAt, messages, messageReads,
                 notifications, marked, socketVars, historyVars, clock>>

\* Message.find returns; without messages of others the handler responds,
\* otherwise it runs up to `await MessageRead.find`.
MarkConversationReadMessages(r) ==
  /\ req[r].op = "markConversationRead" /\ req[r].pc = "messages"
  /\ \E storeOk \in BOOLEAN :
       LET messageIds == MessagesNotSentBy(req[r].conversation, req[r].user)
       IN IF ~storeOk
          THEN Return(r, McrResult(r, 500, "store error", 0, 0, 0)
                         @@ [seen |-> req[r].seen])
          ELSE IF messageIds = {}
          THEN Return(r, McrResult(r, 200, "", 0, 0, 0)
                         @@ [seen |-> req[r].seen])
          ELSE /\ req' = [req EXCEPT ![r].pc = "reads",
                                     ![r].messageIds = messageIds]
               /\ lastResult' = NoResult
  /\ pushed' = <<>>
  /\ UNCHANGED <<conversations, updatedAt, messages, messageReads,
                 notifications, marked, socketVars, historyVars, clock>>

\* MessageRead.find returns; with nothing unread the handler responds,
\* otherwise it runs up to `await MessageRead.insertMany`.
MarkConversationReadExisting(r) ==
  /\ req[r].op = "markConversationRead" /\ req[r].pc = "reads"
  /\ \E storeOk \in BOOLEAN :
       LET existingSet == ReadSet(req[r].user, req[r].messageIds)
           unread == unreadMessages(req[r].messageIds, existingSet)
       IN IF ~storeOk
          THEN Return(r, McrResult(r, 500, "store error", 0, 0, 0)
                         @@ [seen |-> req[r].seen])
          ELSE IF unread = {}
          THEN Return(r, McrResult(r, 200, "", 0, 0, 0)
                         @@ [seen |-> req[r].seen])
          ELSE /\ req' = [req EXCEPT ![r].pc = "insert", ![r].unread = unread]
               /\ lastResult' = NoResult
  /\ pushed' = <<>>
  /\ UNCHANGED <<conversations, updatedAt, messages, messageReads,
                 notifications, marked, socketVars, historyVars, clock>>

\* insertMany returns or throws.  A duplicate-key error is swallowed: the
\* handler emits conversations:read and conversations:updated, each inside
\* safeEmit, and responds.  Any other error is rethrown after some of the
\* documents were written.
MarkConversationReadInsert(r) ==
  /\ req[r].op = "markConversationRead" /\ req[r].pc = "insert"
  /\ \E storeOk \in BOOLEAN, written \in 0..Cardinality(req[r].unread),
        readOk \in BOOLEAN, updatedOk \in BOOLEAN :
       LET ids == Ascending(req[r].unread)
           payload == [k \in 1..Len(ids) |->
                         [message |-> ids[k], user |-> req[r].user]]
           attempted == IF storeOk THEN payload ELSE SubSeq(payload, 1, written)
           after == insertMany(messageReads, attempted)
           code == IF storeOk THEN insertManyError(messageReads, payload) ELSE 6
           participantIds ==
             toParticipantIds(conversations[req[r].conversation])
       IN /\ storeOk => written = 0
          /\ ~storeOk => (readOk /\ updatedOk)
          /\ messageReads' = after
          /\ IF Rethrown(code)
             THEN /\ Return(r, McrResult(r, 500, "store error", code, 0,
                                          Len(after) - Len(messageReads))
                               @@ [seen |-> req[r].seen])
                  /\ pushed' = <<>>
             ELSE /\ pushed' =
                       emitSafe(readOk,
                         <<emitConversationEvent(req[r].conversation,
                             participantIds \ {req[r].user},
                             "conversations:read",
                             [readerId |-> req[r].user,
                              messageIds |-> req[r].unread])>>)
                       \o emitSafe(updatedOk,
                            <<emitConversationEvent(req[r].conversation,
                                participantIds, "conversations:updated",
                                Cardinality(req[r].unread))>>)
                  /\ IF safeEmitThrows(readOk) \/ safeEmitThrows(updatedOk)
                     THEN Return(r, McrResult(r, 500, "emit failed", code, 0,
                                              Len(after) - Len(messageReads))
                                    @@ [seen |-> req[r].seen])
                     ELSE Return(r, McrResult(r, 200, "", code,
                                              Cardinality(req[r].unread),
                                              Len(after) - Len(messageReads))
                                    @@ [seen |-> req[r].seen])
  /\ UNCHANGED <<conversations, updatedAt, messages, notifications, marked,
                 socketVars, historyVars, clock>>

(***************************************************************************)
(* getConversation, getConversationMessages and loadConversationDetail      *)
(***************************************************************************)

\* What loadConversationDetail throws once Conversation.findById returned.
loadConversationDetailError(participants, userId) ==
  IF participants = <<>> THEN AppError("Conversation not found", 404)
  ELSE IF ~isParticipant(participants, userId)
  THEN AppError("Conversation not found", 404)
  ELSE NoError

\* What getConversationMessages throws once Conversation.findById returned.
getConversationMessagesError(participants, userId) ==
  IF participants = <<>> THEN AppError("Conversation not found", 404)
  ELSE IF ~isParticipant(participants, userId)
  THEN AppError("Conversation not found", 404)
  ELSE NoError

\* Message.find({ conversation }) as a set of ids.
MessagesOf(conversationId) ==
  {i \in 1..Len(messages) : messages[i].conversation = conversationId}

\* messages.map(m => formatMessage(m, readSet, userId)): id and isRead.
Listing(messageIds, readSet, userId) ==
  {<<m, formatMessageIsRead(m, readSet, userId)>> : m \in messageIds}

\* What the store really holds for the requested id and caller.
AccessTruth(raw, userId) ==
  IF ~IsValidObjectId(raw) THEN "invalid"
  ELSE IF raw \notin 1..Len(conversations) THEN "missing"
  ELSE IF IsParticipant(userId, raw) THEN "participant"
  ELSE "nonparticipant"

AccessResult(op, userId, raw, response) ==
  [op |-> op, status |-> response.status, error |-> response.error,
   user |-> userId, conversation |-> raw, truth |-> AccessTruth(raw, userId)]

\* getConversation through `await Conversation.findById` of
\* loadConversationDetail, up to `await Message.find`.
GetConversationFind(r) ==
  /\ FreeSlot(r)
  /\ \E userId \in Users, raw \in RawIds, storeOk \in BOOLEAN :
       LET response == loadConversationDetailError(FindConversationById(raw),
                                                   userId)
       IN IF ~IsValidObjectId(raw)
          THEN Return(r, AccessResult("getConversation", userId, raw,
                                      AppError("Invalid conversation ID", 400)))
          ELSE IF ~storeOk
          THEN Return(r, AccessResult("getConversation", userId, raw,
                                      AppError("store error", 500)))
          ELSE IF response # NoError
          THEN Return(r, AccessResult("getConversation", userId, raw, response))
          ELSE /\ req' = [req EXCEPT ![r] =
                            [op |-> "getConversation", pc |-> "messages",
                             user |-> userId, conversation |-> raw,
                             messageIds |-> {}]]
               /\ lastResult' = NoResult
  /\ pushed' = <<>>
  /\ UNCHANGED <<conversations, updatedAt, messages, messageReads,
                 notifications, marked, socketVars, historyVars, clock>>

\* getConversationMessages through `await Conversation.findById`, up to
\* `await Promise.all([Message.find, Message.countDocuments])`.
GetConversationMessagesFind(r) ==
  /\ FreeSlot(r)
  /\ \E userId \in Users, raw \in RawIds, storeOk \in BOOLEAN :
       LET response == getConversationMessagesError(FindConversationById(raw),
                                                    userId)
       IN IF ~IsValidObjectId(raw)
          THEN Return(r, AccessResult("getConversationMessages", userId, raw,
                                      AppError("Invalid conversation ID", 400)))
          ELSE IF ~storeOk
          THEN Return(r, AccessResult("getConversationMessages", userId, raw,
                                      AppError("store error", 500)))
          ELSE IF response # NoError
          THEN Return(r, AccessResult("getConversationMessages", userId, raw,
                                      response))
          ELSE /\ req' = [req EXCEPT ![r] =
                            [op |-> "getConversationMessages",
                             pc |-> "messages", user |-> userId,
                             conversation |-> raw, messageIds |-> {}]]
               /\ lastResult' = NoResult
  /\ pushed' = <<>>
  /\ UNCHANGED <<conversations, updatedAt, messages, messageReads,
                 notifications, marked, socketVars, historyVars, clock>>

\* The messages of the conversation arrive (first page, default limit), up
\* to `await MessageRead.find(...).distinct('message')`.
ListingMessages(r) ==
  /\ req[r].op \in {"getConversation", "getConversationMessages"}
  /\ req[r].pc = "messages"
  /\ \E storeOk \in BOOLEAN :
       IF storeOk
       THEN /\ req' = [req EXCEPT ![r].pc = "reads",
                          ![r].messageIds = MessagesOf(req[r].conversation)]
            /\ lastResult' = NoResult
       ELSE Return(r, AccessResult(req[r].op, req[r].user,
                                   req[r].conversation,
                                   AppError("store error", 500)))
  /\ pushed' = <<>>
  /\ UNCHANGED <<conversations, updatedAt, messages, messageReads,
                 notifications, marked, socketVars, historyVars, clock>>

\* The read-marks arrive and the formatted messages are returned.
ListingReads(r) ==
  /\ req[r].op \in {"getConversation", "getConversationMessages"}
  /\ req[r].pc = "reads"
  /\ \E storeOk \in BOOLEAN :
       IF storeOk
       THEN Return(r, AccessResult(req[r].op, req[r].user,
                                   req[r].conversation, NoError)
                      @@ [messages |->
                            Listing(req[r].messageIds,
                                    ReadSet(req[r].user, req[r].messageIds),
                                    req[r].user)])
       ELSE Return(r, AccessResult(req[r].op, req[r].user,
                                   req[r].conversation,
                                   AppError("store error", 500)))
  /\ pushed' = <<>>
  /\ UNCHANGED <<conversations, updatedAt, messages, messageReads,
                 notifications, marked, socketVars, historyVars, clock>>

(***************************************************************************)
(* startConversation                                                        *)
(***************************************************************************)
\* Conversation.findOne({ participants: { $all: [userId, recipientId],
\* $size: 2 } }): the first match in natural order, 0 for null.
MatchesOrderedPair(participants, userId, recipientId) ==
  participants = <<userId, recipientId>>
MatchesPair(participants, userId, recipientId) ==
  /\ Len(participants) = 2
  /\ {userId, recipientId} \subseteq SeqToSet(participants)

FindConversationByPair(userId, recipientId) ==
  LET matches == {i \in 1..Len(conversations) :
                    MatchesPair(conversations[i], userId, recipientId)}
  IN IF matches = {} THEN 0
     ELSE CHOOSE i \in matches : \A k \in matches : i <= k

\* Two users who start conversations, and the recipient ids they send: each
\* other, themselves, an id of no account, and a missing recipient_id.
StartCallers == {"u1", "u2"}
StartRecipients == StartCallers \cup {"u_gone", NoUser}

\* The checks of startConversation before User.findById.
StartValidationError(userId, recipientId) ==
  IF recipientId = NoUser THEN "recipient_id is required"
  ELSE IF recipientId = userId THEN "Cannot start conversation with yourself"
  ELSE ""

\* User.findById(recipientId) finds a document.
RecipientExists(recipientId) ==
  recipientId \in Identities /\ UserDirectory(recipientId).exists

StartResult(r, status) ==
  [op |-> "startConversation", status |-> status, error |-> "",
   user |-> req[r].user, recipient |-> req[r].recipient,
   id |-> req[r].conversation, created |-> req[r].created,
   prior |-> req[r].prior, priorUser |-> req[r].priorUser]

\* The pc after the conversation is known.
AfterConversation(hasMessage) == IF hasMessage THEN "message" ELSE "detail"

\* startConversation through `await User.findById`, up to
\* `await Conversation.findOne`.  prior and priorUser remember a successful
\* startConversation of the same two users that returned just before.
StartConversationRecipient(r) ==
  /\ FreeSlot(r)
  /\ \E userId \in StartCallers, recipientId \in StartRecipients,
        hasMessage \in BOOLEAN, storeOk \in BOOLEAN :
       LET error == StartValidationError(userId, recipientId)
           same == /\ lastResult.op = "startConversation"
                   /\ lastResult.status \in {200, 201}
                   /\ {lastResult.user, lastResult.recipient} =
                        {userId, recipientId}
       IN IF error # ""
          THEN Return(r, Failure("startConversation", 400, error))
          ELSE IF ~storeOk
          THEN Return(r, Failure("startConversation", 500, "store error"))
          ELSE IF ~RecipientExists(recipientId)
          THEN Return(r, Failure("startConversation", 404,
                                 "Recipient not found"))
          ELSE /\ \/ FindConversationByPair(userId, recipientId) # 0
                  \/ Len(conversations) <= MaxConvs
               /\ hasMessage => Len(messages) < MaxMsgs
               /\ req' = [req EXCEPT ![r] =
                    [op |-> "startConversation", pc |-> "findOne",
                     user |-> userId, recipient |-> recipientId,
                     hasMessage |-> hasMessage, conversation |-> 0,
                     created |-> FALSE, message |-> 0,
                     prior |-> IF same THEN lastResult.id ELSE 0,
                     priorUser |-> IF same THEN lastResult.user ELSE NoUser]]
               /\ lastResult' = NoResult
  /\ pushed' = <<>>
  /\ UNCHANGED <<conversations, updatedAt, messages, messageReads,
                 notifications, marked, socketVars, historyVars, clock>>

\* findOne returns: on a miss the handler runs up to
\* `await Conversation.create`, on a hit up to the next store call.
StartConversationFindOne(r) ==
  /\ req[r].op = "startConversation" /\ req[r].pc = "findOne"
  /\ \E storeOk \in BOOLEAN :
       LET found == FindConversationByPair(req[r].user, req[r].recipient)
       IN IF ~storeOk
          THEN Return(r, Failure("startConversation", 500, "store error"))
          ELSE /\ req' = [req EXCEPT
                            ![r].pc = IF found = 0 THEN "create"
                                      ELSE AfterConversation(req[r].hasMessage),
                            ![r].conversation = found]
               /\ lastResult' = NoResult
  /\ pushed' = <<>>
  /\ UNCHANGED <<conversations, updatedAt, messages, messageReads,
                 notifications, marked, socketVars, historyVars, clock>>

\* Conversation.create({ participants: [userId, recipientId] })
StartConversationCreate(r) ==
  /\ req[r].op = "startConversation" /\ req[r].pc = "create"
  /\ \E storeOk \in BOOLEAN :
       IF storeOk
       THEN /\ conversations' = Append(conversations,
                                       <<req[r].user, req[r].recipient>>)
            /\ updatedAt' = Append(updatedAt, 0)
            /\ req' = [req EXCEPT
                         ![r].pc = AfterConversation(req[r].hasMessage),
                         ![r].conversation = Len(conversations) + 1,
                         ![r].created = TRUE]
            /\ lastResult' = NoResult
       ELSE /\ Return(r, Failure("startConversation", 500, "store error"))
            /\ UNCHANGED <<conversations, updatedAt>>
  /\ pushed' = <<>>
  /\ UNCHANGED <<messages, messageReads, notifications, marked, socketVars,
                 historyVars, clock>>

\* Message.create of the first message, up to `await conversation.save()`.
StartConversationMessage(r) ==
  /\ req[r].op = "startConversation" /\ req[r].pc = "message"
  /\ \E storeOk \in BOOLEAN :
       IF storeOk
       THEN /\ messages' = Append(messages,
                 [conversation |-> req[r].conversation, sender |-> req[r].user])
            /\ req' = [req EXCEPT ![r].pc = "save",
                                  ![r].message = Len(messages) + 1]
            /\ lastResult' = NoResult
       ELSE /\ Return(r, Failure("startConversation", 500, "store error"))
            /\ UNCHANGED messages
  /\ pushed' = <<>>
  /\ UNCHANGED <<conversations, updatedAt, messageReads, notifications, marked,
                 socketVars, historyVars, clock>>

\* conversation.save() with the new updatedAt, up to
\* `await Message.findById(...).populate(...)`.
StartConversationSave(r) ==
  /\ req[r].op = "startConversation" /\ req[r].pc = "save"
  /\ \E storeOk \in BOOLEAN :
       IF storeOk
       THEN /\ updatedAt' = [updatedAt EXCEPT ![req[r].conversation] =
                               req[r].message]
            /\ req' = [req EXCEPT ![r].pc = "populate"]
            /\ lastResult' = NoResult
       ELSE /\ Return(r, Failure("startConversation", 500, "store error"))
            /\ UNCHANGED updatedAt
  /\ pushed' = <<>>
  /\ UNCHANGED <<conversations, messages, messageReads, notifications, marked,
                 socketVars, historyVars, clock>>

\* The populated first message arrives: conversations:message is emitted
\* inside safeEmit and createNotification runs up to
\* `await Notification.create`.
StartConversationPopulate(r) ==
  /\ req[r].op = "startConversation" /\ req[r].pc = "populate"
  /\ \E storeOk \in BOOLEAN, emitOk \in BOOLEAN :
       /\ ~storeOk => emitOk
       /\ IF storeOk
          THEN /\ pushed' =
                    emitSafe(emitOk,
                      <<emitConversationEvent(req[r].conversation,
                          toParticipantIds(conversations[req[r].conversation]),
                          "conversations:message", req[r].message)>>)
               /\ emittedMessages' =
                    IF emitOk THEN Append(emittedMessages, req[r].message)
                    ELSE emittedMessages
               /\ IF safeEmitThrows(emitOk)
                  THEN Return(r, Failure("startConversation", 500,
                                         "emit failed"))
                  ELSE /\ req' = [req EXCEPT ![r].pc = "notify"]
                       /\ lastResult' = NoResult
          ELSE /\ Return(r, Failure("startConversation", 500, "store error"))
               /\ pushed' = <<>>
               /\ UNCHANGED emittedMessages
  /\ UNCHANGED <<conversations, updatedAt, messages, messageReads,
                 notifications, marked, socketVars, clock>>

\* Notification.create of the nested createNotification; a failure is
\* swallowed and the handler goes on to loadConversationDetail.
StartConversationNotify(r) ==
  /\ req[r].op = "startConversation" /\ req[r].pc = "notify"
  /\ \E storeOk \in BOOLEAN, emitOk \in BOOLEAN :
       /\ ~storeOk => emitOk
       /\ IF storeOk
          THEN /\ notifications' = Append(notifications,
                                          NewNotification(req[r].recipient))
               /\ pushed' = emitSafe(emitOk,
                              <<emitNotificationCreated(req[r].recipient,
                                  Len(notifications) + 1)>>)
               /\ req' = [req EXCEPT ![r].pc =
                            IF emitSafeThrows(emitOk) THEN "detail"
                            ELSE "notifyCount"]
          ELSE /\ req' = [req EXCEPT ![r].pc = "detail"]
               /\ pushed' = <<>>
               /\ UNCHANGED notifications
  /\ lastResult' = NoResult
  /\ UNCHANGED <<conversations, updatedAt, messages, messageReads, marked,
                 socketVars, historyVars, clock>>

\* broadcastUnreadCount after its await, up to the
\* `await Conversation.findById` of loadConversationDetail.
StartConversationNotifyCount(r) ==
  /\ req[r].op = "startConversation" /\ req[r].pc = "notifyCount"
  /\ \E storeOk \in BOOLEAN, emitOk \in BOOLEAN :
       /\ ~storeOk => emitOk
       /\ pushed' = broadcastUnreadCount(req[r].recipient, storeOk, emitOk)
  /\ req' = [req EXCEPT ![r].pc = "detail"]
  /\ lastResult' = NoResult
  /\ UNCHANGED <<conversations, updatedAt, messages, messageReads,
                 notifications, marked, socketVars, historyVars, clock>>

\* loadConversationDetail: Conversation.findById returns.
StartConversationDetail(r) ==
  /\ req[r].op = "startConversation" /\ req[r].pc = "detail"
  /\ \E storeOk \in BOOLEAN :
       LET response ==
             loadConversationDetailError(
               FindConversationById(req[r].conversation), req[r].user)
       IN IF ~storeOk
          THEN Return(r, Failure("startConversation", 500, "store error"))
          ELSE IF response # NoError
          THEN Return(r, Failure("startConversation", response.status,
                                 response.error))
          ELSE /\ req' = [req EXCEPT ![r].pc = "detailMessages"]
               /\ lastResult' = NoResult
  /\ pushed' = <<>>
  /\ UNCHANGED <<conversations, updatedAt, messages, messageReads,
                 notifications, marked, socketVars, historyVars, clock>>

\* loadConversationDetail: Message.find returns.
StartConversationDetailMessages(r) ==
  /\ req[r].op = "startConversation" /\ req[r].pc = "detailMessages"
  /\ \E storeOk \in BOOLEAN :
       IF storeOk
       THEN /\ req' = [req EXCEPT ![r].pc = "detailReads"]
            /\ lastResult' = NoResult
       ELSE Return(r, Failure("startConversation", 500, "store error"))
  /\ pushed' = <<>>
  /\ UNCHANGED <<conversations, updatedAt, messages, messageReads,
                 notifications, marked, socketVars, historyVars, clock>>

\* loadConversationDetail: MessageRead.find returns; conversations:updated
\* is emitted inside safeEmit and the handler responds 201 (created) or 200.
StartConversationRespond(r) ==
  /\ req[r].op = "startConversation" /\ req[r].pc = "detailReads"
  /\ \E storeOk \in BOOLEAN, emitOk \in BOOLEAN :
       /\ ~storeOk => emitOk
       /\ IF storeOk
          THEN /\ pushed' =
                    emitSafe(emitOk,
                      <<emitConversationEvent(req[r].conversation,
                          toParticipantIds(conversations[req[r].conversation]),
                          "conversations:updated", req[r].created)>>)
               /\ IF safeEmitThrows(emitOk)
                  THEN Return(r, Failure("startConversation", 500,
                                         "emit failed"))
                  ELSE Return(r, StartResult(r, IF req[r].created THEN 201
                                                ELSE 200))
          ELSE /\ pushed' = <<>>
               /\ Return(r, Failure("startConversation", 500, "store error"))
  /\ UNCHANGED <<conversations, updatedAt, messages, messageReads,
                 notifications, marked, socketVars, historyVars, clock>>

(***************************************************************************)
(* getConversations: aggregateConversationSummaries without a search term. *)
(* The id of a message is its position in insertion order, which is the    *)
(* order of createdAt.                                                     *)
(***************************************************************************)
\* Conversation.find({ participants: userId }): the ids of the result.
ConversationsOf(userId) ==
  {c \in 1..Len(conversations) : userId \in SeqToSet(conversations[c])}

MessagesIn(conversationId) ==
  {i \in 1..Len(messages) : messages[i].conversation = conversationId}

\* Message.aggregate([$match, $sort createdAt -1, $group $first]): for each
\* conversation with messages, the latest of them.
lastMessages(conversationIds) ==
  [c \in {d \in conversationIds : MessagesIn(d) # {}} |->
     CHOOSE i \in MessagesIn(c) : \A k \in MessagesIn(c) : k <= i]

\* The messages the unread pipeline keeps for one conversation: sender not
\* the user, and the $lookup into messagereads for the user gives nothing.
UnreadIn(conversationId, userId) ==
  {i \in MessagesIn(conversationId) :
     /\ messages[i].sender # userId
     /\ ~\E k \in 1..Len(messageReads) :
           messageReads[k].message = i /\ messageReads[k].user = userId}

\* Message.aggregate([$match, $lookup, $match reads = [], $group $sum]): a
\* count for each conversation that has such messages.
unreadAggregatesEverySender(conversationIds, userId) ==
  [c \in {d \in conversationIds : MessagesIn(d) # {}} |->
     Cardinality(MessagesIn(c))]
unreadAggregates(conversationIds, userId) ==
  [c \in {d \in conversationIds : UnreadIn(d, userId) # {}} |->
     Cardinality(UnreadIn(c, userId))]

\* The summaries the reduce builds; lastMessage 0 stands for null.
Summaries(conversationIds, lastMessageMap, unreadMap) ==
  [c \in conversationIds |->
     [lastMessage |-> IF c \in DOMAIN lastMessageMap THEN lastMessageMap[c]
                      ELSE 0,
      unreadCount |-> IF c \in DOMAIN unreadMap THEN unreadMap[c] ELSE 0]]

SummaryResult(userId, summaries) ==
  [op |-> "getConversations", status |-> 200, error |-> "", user |-> userId,
   summaries |-> summaries]

\* getConversations through `await Conversation.find`; without
\* conversations the result is empty, otherwise the call runs up to the
\* first `await Message.aggregate`.
GetConversationsFind(r) ==
  /\ FreeSlot(r)
  /\ \E userId \in Users, storeOk \in BOOLEAN :
       IF ~storeOk
       THEN Return(r, Failure("getConversations", 500, "store error"))
       ELSE IF ConversationsOf(userId) = {}
       THEN Return(r, SummaryResult(userId, Summaries({}, <<>>, <<>>)))
       ELSE /\ req' = [req EXCEPT ![r] =
                         [op |-> "getConversations", pc |-> "lastMessages",
                          user |-> userId,
                          conversationIds |-> ConversationsOf(userId),
                          lastMessageMap |-> <<>>]]
            /\ lastResult' = NoResult
  /\ pushed' = <<>>
  /\ UNCHANGED <<conversations, updatedAt, messages, messageReads,
                 notifications, marked, socketVars, historyVars, clock>>

\* The last-message aggregate returns; up to the second
\* `await Message.aggregate`.
GetConversationsLastMessages(r) ==
  /\ req[r].op = "getConversations" /\ req[r].pc = "lastMessages"
  /\ \E storeOk \in BOOLEAN :
       IF ~storeOk
       THEN Return(r, Failure("getConversations", 500, "store error"))
       ELSE /\ req' = [req EXCEPT ![r].pc = "unread",
                                  ![r].lastMessageMap =
                                     lastMessages(req[r].conversationIds)]
            /\ lastResult' = NoResult
  /\ pushed' = <<>>
  /\ UNCHANGED <<conversations, updatedAt, messages, messageReads,
                 notifications, marked, socketVars, historyVars, clock>>

\* The unread aggregate returns; the summaries are built and returned.
GetConversationsUnread(r) ==
  /\ req[r].op = "getConversations" /\ req[r].pc = "unread"
  /\ \E storeOk \in BOOLEAN :
       IF ~storeOk
       THEN Return(r, Failure("getConversations", 500, "store error"))
       ELSE Return(r, SummaryResult(req[r].user,
                        Summaries(req[r].conversationIds,
                                  req[r].lastMessageMap,
                                  unreadAggregates(req[r].conversationIds,
                                                   req[r].user))))
  /\ pushed' = <<>>
  /\ UNCHANGED <<conversations, updatedAt, messages, messageReads,
                 notifications, marked, socketVars, historyVars, clock>>

(***************************************************************************)
(* Delivery of the events the handlers hand to the socket layer.           *)
(* ioInstance.to(x).emit(...) writes one packet to every live socket that  *)
(* is a member of room x; every socket is a member of the room named by    *)
(* its own id.                                                             *)
(***************************************************************************)
\* ioInstance.to(room).emit(event, data) of emitConversationEvent.
roomDeliveriesSkipped(room) == {}
roomDeliveries(room) ==
  IF room = 0 THEN {}
  ELSE {s \in Sockets : <<s, room>> \in rooms /\ sockState[s] = "connected"}

\* emitToUsers: emitToUser once for each of the unique ids; the number of
\* packets socket s is written.
emitToUsersOnlyOutsideRoom(userIds, room, s) ==
  IF s \in roomDeliveries(room) THEN 0
  ELSE Cardinality({u \in userIds : s \in emitToUserSockets(u)})
emitToUsersCopies(userIds, room, s) ==
  Cardinality({u \in userIds : s \in emitToUserSockets(u)})

\* The packets of one event, per socket, by the two paths.  A notification
\* event goes through emitToUser only.
viaRoom(e, s) ==
  IF "conversation" \in DOMAIN e
     /\ s \in roomDeliveries(conversationRoom(e.conversation))
  THEN 1 ELSE 0

viaUsers(e, s) ==
  IF "conversation" \in DOMAIN e
  THEN emitToUsersCopies(e.users, conversationRoom(e.conversation), s)
  ELSE IF s \in emitToUserSockets(e.user) THEN 1 ELSE 0

\* The number of packets of event e written to socket s.
Copies(e, s) == viaRoom(e, s) + viaUsers(e, s)

\* The emit calls of the handlers for the stored conversations and the
\* users: conversations:message and conversations:updated for the
\* participants, conversations:read for the participants other than the
\* reader, notifications:new and notifications:unreadCount for a recipient.
ConversationEvents ==
  UNION {LET ids == toParticipantIds(conversations[c])
         IN {emitConversationEvent(c, ids, "conversations:message", 0),
             emitConversationEvent(c, ids, "conversations:updated", 0)}
            \cup {emitConversationEvent(c, ids \ {reader},
                                        "conversations:read", 0) :
                    reader \in ids} :
         c \in 1..Len(conversations)}

NotificationEvents ==
  UNION {{emitNotificationCreated(u, 1), emitUnreadCount(u, 1)} :
         u \in NotifUsers}

HandlerEvents == ConversationEvents \cup NotificationEvents

\* The sockets an emit of event e writes a packet to, by either path.
SentTo(e) ==
  IF "conversation" \in DOMAIN e
  THEN roomDeliveries(conversationRoom(e.conversation))
         \cup UNION {emitToUserSockets(u) : u \in e.users}
  ELSE emitToUserSockets(e.user)

(***************************************************************************)
(* Specification of the socket layer.  The process starts against a store  *)
(* that already holds some conversations.                                  *)
(***************************************************************************)
SeedConversations ==
  {[i \in 1..n |-> SeedPair(i)] : n \in 0..MaxConvs}

SocketInit ==
  /\ userSockets = EmptyMap
  /\ socketConversations = EmptyMap
  /\ rooms = {}
  /\ sockState = [s \in Sockets |-> "fresh"]
  /\ socketData = [s \in Sockets |-> NoUser]
  /\ joins = {}
  /\ lastJoinReply = NoReply

NotifInit ==
  /\ notifications = <<>>
  /\ req = [r \in Reqs |-> Idle]
  /\ lastResult = NoResult
  /\ pushed = <<>>
  /\ marked = {}
  /\ clock = 1

\* The other collections are empty; a seeded conversation was never updated.
StoreInit ==
  /\ updatedAt = [i \in 1..Len(conversations) |-> 0]
  /\ messages = <<>>
  /\ messageReads = <<>>
  /\ emittedMessages = <<>>

Init ==
  /\ SocketInit
  /\ NotifInit
  /\ conversations \in SeedConversations
  /\ StoreInit

Next ==
  \/ \E s \in Sockets : Handshake(s)
  \/ \E s \in Sockets : Connection(s)
  \/ \E s \in Sockets : JoinBegin(s)
  \/ \E j \in joins : JoinResume(j)
  \/ \E s \in Sockets : Leave(s)
  \/ \E s \in Sockets : Disconnect(s)

Spec == Init /\ [][Next]_vars

(***************************************************************************)
(* Specification of the socket layer as the emitters see it: the same      *)
(* steps, against a store that holds MaxConvs conversations.               *)
(***************************************************************************)
BroadcastInit ==
  /\ SocketInit
  /\ NotifInit
  /\ conversations = [i \in 1..MaxConvs |-> SeedPair(i)]
  /\ StoreInit

SpecBroadcast == BroadcastInit /\ [][Next]_vars

(***************************************************************************)
(* Specification of the notification service: creates, marks-as-read and   *)
(* unread-count queries, running concurrently.                             *)
(***************************************************************************)
NotifNext ==
  \/ \E r \in Reqs : CreatePersist(r)
  \/ \E r \in Reqs : CreateCount(r)
  \/ \E r \in Reqs : MarkReadFind(r)
  \/ \E r \in Reqs : MarkReadSave(r)
  \/ \E r \in Reqs : UnreadCountQuery(r)

NotifSpecInit ==
  /\ SocketInit
  /\ NotifInit
  /\ conversations = <<>>
  /\ StoreInit

SpecNotif == NotifSpecInit /\ [][NotifNext]_vars

(***************************************************************************)
(* Specification of concurrent createNotification calls, with the result   *)
(* of each count query in flight between the store and the call.           *)
(***************************************************************************)
CreatesNext ==
  \/ \E r \in Reqs : CreatePersist(r)
  \/ \E r \in Reqs : CreateCountQuery(r)
  \/ \E r \in Reqs : CreateCountResult(r)

SpecCreates == NotifSpecInit /\ [][CreatesNext]_vars

(***************************************************************************)
(* Specification of the notification inbox: the mutations of stored        *)
(* notifications while time passes.  A call that awaits twice (find, then  *)
(* save) begins when no other such call is waiting; the calls that are one *)
(* store operation run at any time, also between a find and its save.      *)
(***************************************************************************)
\* Notifications stored earlier, for alternating recipients; those already
\* read were read at time 1.
SeedNotification(i, isRead) ==
  [user |-> IF i % 2 = 1 THEN "u1" ELSE "u2", isRead |-> isRead,
   readAt |-> IF isRead THEN 1 ELSE 0, deleted |-> FALSE]
SeedNotifications ==
  {[i \in 1..MaxNotifs |-> SeedNotification(i, flags[i])] :
     flags \in [1..MaxNotifs -> BOOLEAN]}

InboxInit ==
  /\ SocketInit
  /\ notifications \in SeedNotifications
  /\ req = [r \in Reqs |-> Idle]
  /\ lastResult = NoResult
  /\ pushed = <<>>
  /\ marked = {}
  /\ clock = 1
  /\ conversations = <<>>
  /\ StoreInit

InboxNext ==
  \/ NoCallInProgress /\ \E r \in Reqs : MarkReadFind(r)
  \/ \E r \in Reqs : MarkReadSave(r)
  \/ NoCallInProgress /\ \E r \in Reqs : UpdateFind(r)
  \/ \E r \in Reqs : UpdateSave(r)
  \/ \E r \in Reqs : DeleteNotification(r)
  \/ \E r \in Reqs : MarkAllNotificationsRead(r)
  \/ \E r \in Reqs : BulkNotificationAction(r)

SpecInbox == InboxInit /\ [][InboxNext]_vars

\* The same, with time passing between the steps.
InboxClockNext ==
  \/ InboxNext
  \/ Tick

SpecInboxClock == InboxInit /\ [][InboxClockNext]_vars

(***************************************************************************)
(* Specification of the connection registry: connections arrive and go     *)
(* while server code calls emitToUser and getOnlineSockets.                *)
(***************************************************************************)
RegistryNext ==
  \/ \E s \in Sockets : Handshake(s)
  \/ \E s \in Sockets : Connection(s)
  \/ \E s \in Sockets : Disconnect(s)
  \/ EmitToUser
  \/ GetOnlineSockets

SpecRegistry == NotifSpecInit /\ [][RegistryNext]_vars

(***************************************************************************)
(* Specification of message sending: concurrent createMessage calls.       *)
(***************************************************************************)
SendNext ==
  \/ \E r \in Reqs : CreateMessageFind(r)
  \/ \E r \in Reqs : CreateMessageInsert(r)
  \/ \E r \in Reqs : CreateMessageTouch(r)
  \/ \E r \in Reqs : CreateMessagePopulate(r)
  \/ \E r \in Reqs : CreateMessageNotify(r)
  \/ \E r \in Reqs : CreateMessageNotifyCount(r)

SpecSend == Init /\ [][SendNext]_vars

(***************************************************************************)
(* Specification of read receipts: concurrent markConversationRead calls   *)
(* while messages are being sent.                                          *)
(***************************************************************************)
ReadNext ==
  \/ \E r \in Reqs : MarkConversationReadFind(r)
  \/ \E r \in Reqs : MarkConversationReadMessages(r)
  \/ \E r \in Reqs : MarkConversationReadExisting(r)
  \/ \E r \in Reqs : MarkConversationReadInsert(r)

\* Messages already exchanged in the first conversation: two by its first
\* participant, then one by the second, and so on.
SeedMessage(i) ==
  [conversation |-> 1,
   sender |-> IF i % 3 = 0 THEN SeedPair(1)[2] ELSE SeedPair(1)[1]]
SeedMessages == {[i \in 1..n |-> SeedMessage(i)] : n \in 0..MaxMsgs}

ReadInit ==
  /\ SocketInit
  /\ NotifInit
  /\ conversations \in SeedConversations
  /\ Len(conversations) = MaxConvs
  /\ messages \in SeedMessages
  /\ updatedAt = [i \in 1..Len(conversations) |->
                    IF i = 1 THEN Len(messages) ELSE 0]
  /\ messageReads = <<>>
  /\ emittedMessages = [i \in 1..Len(messages) |-> i]

SpecRead == ReadInit /\ [][ReadNext]_vars

(***************************************************************************)
(* Specification of conversation reads: concurrent getConversation and     *)
(* getConversationMessages calls over the seeded store.                    *)
(***************************************************************************)
AccessNext ==
  \/ \E r \in Reqs : GetConversationFind(r)
  \/ \E r \in Reqs : GetConversationMessagesFind(r)
  \/ \E r \in Reqs : ListingMessages(r)
  \/ \E r \in Reqs : ListingReads(r)

SpecAccess == ReadInit /\ [][AccessNext]_vars

(***************************************************************************)
(* Specification of startConversation called in sequence: a call begins    *)
(* only when no other call is in progress.                                 *)
(***************************************************************************)
StartNext ==
  \/ NoCallInProgress /\ \E r \in Reqs : StartConversationRecipient(r)
  \/ \E r \in Reqs : StartConversationFindOne(r)
  \/ \E r \in Reqs : StartConversationCreate(r)
  \/ \E r \in Reqs : StartConversationMessage(r)
  \/ \E r \in Reqs : StartConversationSave(r)
  \/ \E r \in Reqs : StartConversationPopulate(r)
  \/ \E r \in Reqs : StartConversationNotify(r)
  \/ \E r \in Reqs : StartConversationNotifyCount(r)
  \/ \E r \in Reqs : StartConversationDetail(r)
  \/ \E r \in Reqs : StartConversationDetailMessages(r)
  \/ \E r \in Reqs : StartConversationRespond(r)

SpecStart == Init /\ [][StartNext]_vars

(***************************************************************************)
(* Specification of startConversation called concurrently, without a first *)
(* message: a call begins whenever a request slot is free.                 *)
(***************************************************************************)
StartConcurrentNext ==
  \/ \E r \in Reqs : /\ StartConversationRecipient(r)
                     /\ req'[r].op = "startConversation" =>
                          ~req'[r].hasMessage
  \/ \E r \in Reqs : StartConversationFindOne(r)
  \/ \E r \in Reqs : StartConversationCreate(r)
  \/ \E r \in Reqs : StartConversationDetail(r)
  \/ \E r \in Reqs : StartConversationDetailMessages(r)
  \/ \E r \in Reqs : StartConversationRespond(r)

SpecStartConcurrent == NotifSpecInit /\ [][StartConcurrentNext]_vars

(***************************************************************************)
(* Specification of the operations that persist and then push: one call of *)
(* createNotification, createMessage, startConversation or                 *)
(* markConversationRead against a store that holds some conversations and  *)
(* messages.                                                               *)
(***************************************************************************)
\* The server has answered no call yet and runs none.
NoCallMade == NoCallInProgress /\ lastResult = NoResult

PushNext ==
  \/ NoCallMade /\ \E r \in Reqs : CreatePersist(r)
  \/ \E r \in Reqs : CreateCount(r)
  \/ NoCallMade /\ \E r \in Reqs : CreateMessageFind(r)
  \/ \E r \in Reqs : CreateMessageInsert(r)
  \/ \E r \in Reqs : CreateMessageTouch(r)
  \/ \E r \in Reqs : CreateMessagePopulate(r)
  \/ \E r \in Reqs : CreateMessageNotify(r)
  \/ \E r \in Reqs : CreateMessageNotifyCount(r)
  \/ NoCallMade /\ \E r \in Reqs : StartConversationRecipient(r)
  \/ \E r \in Reqs : StartConversationFindOne(r)
  \/ \E r \in Reqs : StartConversationCreate(r)
  \/ \E r \in Reqs : StartConversationMessage(r)
  \/ \E r \in Reqs : StartConversationSave(r)
  \/ \E r \in Reqs : StartConversationPopulate(r)
  \/ \E r \in Reqs : StartConversationNotify(r)
  \/ \E r \in Reqs : StartConversationNotifyCount(r)
  \/ \E r \in Reqs : StartConversationDetail(r)
  \/ \E r \in Reqs : StartConversationDetailMessages(r)
  \/ \E r \in Reqs : StartConversationRespond(r)
  \/ NoCallMade /\ \E r \in Reqs : MarkConversationReadFind(r)
  \/ \E r \in Reqs : MarkConversationReadMessages(r)
  \/ \E r \in Reqs : MarkConversationReadExisting(r)
  \/ \E r \in Reqs : MarkConversationReadInsert(r)

\* Messages are stored only in a conversation that exists, and each was
\* broadcast when it was sent.
PushInit ==
  /\ SocketInit
  /\ NotifInit
  /\ conversations \in SeedConversations
  /\ messages \in SeedMessages
  /\ Len(conversations) = 0 => messages = <<>>
  /\ updatedAt = [i \in 1..Len(conversations) |->
                    IF i = 1 THEN Len(messages) ELSE 0]
  /\ messageReads = <<>>
  /\ emittedMessages = [i \in 1..Len(messages) |-> i]

SpecPush == PushInit /\ [][PushNext]_vars

(***************************************************************************)
(* Specification of the conversation list: getConversations calls while    *)
(* markConversationRead calls write read-marks.                            *)
(***************************************************************************)
SummaryNext ==
  \/ \E r \in Reqs : MarkConversationReadFind(r)
  \/ \E r \in Reqs : MarkConversationReadMessages(r)
  \/ \E r \in Reqs : MarkConversationReadExisting(r)
  \/ \E r \in Reqs : MarkConversationReadInsert(r)
  \/ \E r \in Reqs : GetConversationsFind(r)
  \/ \E r \in Reqs : GetConversationsLastMessages(r)
  \/ \E r \in Reqs : GetConversationsUnread(r)

SpecSummary == ReadInit /\ [][SummaryNext]_vars

(***************************************************************************)
(* Specification of a dialogue against a store that is empty at first: a   *)
(* startConversation call, after its success a markConversationRead call,  *)
(* and after the success of that a createMessage call.                     *)
(***************************************************************************)
\* The call that returned last was this operation and it succeeded; no
\* call is running.
Succeeded(op) ==
  /\ NoCallInProgress
  /\ lastResult.op = op
  /\ lastResult.status \in {200, 201}

DialogueNext ==
  \/ NoCallMade /\ \E r \in Reqs : StartConversationRecipient(r)
  \/ \E r \in Reqs : StartConversationFindOne(r)
  \/ \E r \in Reqs : StartConversationCreate(r)
  \/ \E r \in Reqs : StartConversationMessage(r)
  \/ \E r \in Reqs : StartConversationSave(r)
  \/ \E r \in Reqs : StartConversationPopulate(r)
  \/ \E r \in Reqs : StartConversationNotify(r)
  \/ \E r \in Reqs : StartConversationNotifyCount(r)
  \/ \E r \in Reqs : StartConversationDetail(r)
  \/ \E r \in Reqs : StartConversationDetailMessages(r)
  \/ \E r \in Reqs : StartConversationRespond(r)
  \/ Succeeded("startConversation")
       /\ \E r \in Reqs : MarkConversationReadFind(r)
  \/ \E r \in Reqs : MarkConversationReadMessages(r)
  \/ \E r \in Reqs : MarkConversationReadExisting(r)
  \/ \E r \in Reqs : MarkConversationReadInsert(r)
  \/ Succeeded("markConversationRead")
       /\ \E r \in Reqs : CreateMessageFind(r)
  \/ \E r \in Reqs : CreateMessageInsert(r)
  \/ \E r \in Reqs : CreateMessageTouch(r)
  \/ \E r \in Reqs : CreateMessagePopulate(r)
  \/ \E r \in Reqs : CreateMessageNotify(r)
  \/ \E r \in Reqs : CreateMessageNotifyCount(r)

SpecDialogue == NotifSpecInit /\ [][DialogueNext]_vars

(***************************************************************************)
(* Properties of the socket layer.                                         *)
(***************************************************************************)

\* C1: once a connection's disconnect handler has run, the connection has no
\* entry in the connection-to-joined-conversations table, whatever the
\* interleaving of join, leave and disconnect.
C1_NoMembershipAfterDisconnect ==
  \A s \in Sockets : sockState[s] = "closed" => s \notin DOMAIN socketConversations

\* C8: a join by a connection whose user is not a participant of the
\* conversation is answered with an explicit error, and a connection is a
\* member of a conversation room (and tracked as joined) only if its user is
\* a participant of that conversation.
C8_JoinOnlyParticipants ==
  /\ lastJoinReply.truth = "nonparticipant" =>
        (~lastJoinReply.success /\ lastJoinReply.error # "")
  /\ \A m \in rooms : IsParticipant(socketData[m[1]], m[2])
  /\ \A s \in DOMAIN socketConversations :
        \A c \in socketConversations[s] : IsParticipant(socketData[s], c)

\* A non-participant has just been refused while another connection is in a
\* room.
C8_Witness ==
  /\ lastJoinReply.truth = "nonparticipant"
  /\ rooms # {}

\* C10: the error a non-participant gets when joining an existing
\* conversation is the error given for a conversation id that does not
\* exist: two consecutive replies, one of each kind, carry the same error.
C10_JoinErrorHidesExistence ==
  [][(/\ lastJoinReply.truth \in {"missing", "nonparticipant"}
      /\ lastJoinReply'.truth \in {"missing", "nonparticipant"})
     => lastJoinReply'.error = lastJoinReply.error]_vars


\* Notifications of userId that were created, and those of them that a
\* markNotificationRead call has saved as read.
CreatedFor(userId) ==
  {i \in 1..Len(notifications) : notifications[i].user = userId}
MarkedFor(userId) == {i \in marked : notifications[i].user = userId}

\* C3: whenever a notification create or a mark-as-read by the owner has
\* completed successfully (and the count query did not fail), the call has
\* issued an unread-count push to the recipient after its store write.
C3_PushAfterEveryMutation ==
  (/\ lastResult.op \in {"create", "markRead"}
   /\ lastResult.status \in {200, 201}
   /\ ~lastResult.countFailed)
     => lastResult.pushedCount

\* C7: in every reachable state, for every user, the count of the user's
\* stored notifications with isRead = false (the recompute path) equals the
\* number created for the user minus the number of distinct ones marked read.
C7_UnreadCountIsCreatedMinusMarked ==
  \A u \in NotifUsers :
    countUnread(u) = Cardinality(CreatedFor(u)) - Cardinality(MarkedFor(u))
C7_Witness ==
  \E u \in NotifUsers :
    /\ Cardinality(CreatedFor(u)) = 2
    /\ Cardinality(MarkedFor(u)) = 1
    /\ lastResult.op = "unreadCount"
    /\ lastResult.status = 200
    /\ lastResult.user = u
    /\ lastResult.unreadCount = 1

\* C2: any two messages of the same conversation are broadcast
\* (conversations:message) in the order in which they were written to the
\* store, concurrent sends included.
C2_BroadcastOrderIsWriteOrder ==
  \A i, j \in 1..Len(emittedMessages) :
    (/\ i < j
     /\ messages[emittedMessages[i]].conversation =
          messages[emittedMessages[j]].conversation)
      => emittedMessages[i] < emittedMessages[j]

\* C5: when markConversationRead(R, C) has succeeded, every message of C
\* that was stored when the call began and was not sent by R is reported
\* read for R by formatMessage; and a call repeated right after a successful
\* one, with no message stored in between, returns markedCount = 0 and
\* inserts no read-mark.
C5_MarkReadCoversThenRepeatIsEmpty ==
  (lastResult.op = "markConversationRead" /\ lastResult.status = 200) =>
    /\ \A m \in lastResult.existing :
         formatMessageIsRead(m,
                             ReadSet(lastResult.user, 1..Len(messages)),
                             lastResult.user)
    /\ lastResult.repeat =>
         (lastResult.markedCount = 0 /\ lastResult.inserted = 0)
C5_Witness ==
  /\ lastResult.op = "markConversationRead"
  /\ lastResult.status = 200
  /\ lastResult.repeat
  /\ Cardinality(lastResult.existing) >= 2
  /\ lastResult.markedCount = 0

\* C6: the store never holds two read-marks for the same (message, reader);
\* a markConversationRead call whose bulk insert met a duplicate-key conflict
\* still succeeds, and one whose bulk insert met any other store error fails.
C6_DuplicateReadsAreAbsorbed ==
  /\ \A i, j \in 1..Len(messageReads) :
       i # j => messageReads[i] # messageReads[j]
  /\ (lastResult.op = "markConversationRead"
        /\ "insertError" \in DOMAIN lastResult) =>
       /\ lastResult.insertError = DuplicateKey => lastResult.status = 200
       /\ Rethrown(lastResult.insertError) => lastResult.status = 500
C6_Witness ==
  /\ lastResult.op = "markConversationRead"
  /\ "insertError" \in DOMAIN lastResult
  /\ lastResult.insertError = DuplicateKey
  /\ lastResult.status = 200
  /\ lastResult.inserted < lastResult.markedCount

\* C4: a successful startConversation that follows a successful
\* startConversation of the same two users, with caller and recipient in
\* either order, returns the id the earlier call returned and creates no
\* conversation (created = false, status 200).
C4_SecondStartReturnsSameConversation ==
  (/\ lastResult.op = "startConversation"
   /\ lastResult.status \in {200, 201}
   /\ lastResult.prior # 0)
     => /\ lastResult.id = lastResult.prior
        /\ ~lastResult.created
        /\ lastResult.status = 200
C4_Witness ==
  /\ lastResult.op = "startConversation"
  /\ lastResult.status = 200
  /\ lastResult.prior # 0
  /\ lastResult.priorUser = lastResult.recipient
  /\ lastResult.id = lastResult.prior

\* C9: for a well-formed id, the response of getConversation and of
\* getConversationMessages to a caller who is not a participant of the
\* stored conversation has the status and message of the response the same
\* handler gives when no conversation has the id.
C9_NonParticipantSeesNotFound ==
  /\ (lastResult.op = "getConversation"
        /\ lastResult.truth = "nonparticipant"
        /\ lastResult.error # "store error") =>
       [status |-> lastResult.status, error |-> lastResult.error] =
         loadConversationDetailError(<<>>, lastResult.user)
  /\ (lastResult.op = "getConversationMessages"
        /\ lastResult.truth = "nonparticipant"
        /\ lastResult.error # "store error") =>
       [status |-> lastResult.status, error |-> lastResult.error] =
         getConversationMessagesError(<<>>, lastResult.user)
C9_Witness ==
  /\ lastResult.op = "getConversationMessages"
  /\ lastResult.truth = "nonparticipant"
  /\ lastResult.status = 404
  /\ MessagesOf(lastResult.conversation) # {}

\* C11: when startConversation is given a first message, storing the message
\* and bumping the conversation's updatedAt are one atomic change: in every
\* reachable state, each stored message's conversation has an updatedAt at
\* least as late as the message.
C11_FirstMessageAtomicWithUpdatedAt ==
  \A m \in 1..Len(messages) : updatedAt[messages[m].conversation] >= m

C13_CreatePersistsThenPushesFreshCount ==
  [][\A r \in Reqs :
       /\ (req[r] = Idle /\ req'[r].op = "create") =>
            /\ notifications' =
                 Append(notifications, NewNotification(req'[r].user))
            /\ req'[r].id = Len(notifications')
            /\ pushed' \in {<<emitNotificationCreated(req'[r].user,
                                                      req'[r].id)>>,
                            <<EmitThrew>>}
       /\ (req[r].op = "create" /\ req'[r] = Idle) =>
            /\ req[r].id \in 1..Len(notifications)
            /\ notifications' = notifications
            /\ lastResult'.status = 201
            /\ pushed' \in
                 {<<emitUnreadCount(req[r].user,
                      Cardinality(CreatedFor(req[r].user))
                        - Cardinality(MarkedFor(req[r].user)))>>,
                  <<EmitThrew>>, <<CountFailed>>}
            /\ (pushed' = <<CountFailed>>) = lastResult'.countFailed]_vars
C13_Witness ==
  /\ lastResult.op = "create"
  /\ lastResult.status = 201
  /\ Cardinality(CreatedFor(lastResult.user)) = 2
  /\ pushed = <<emitUnreadCount(lastResult.user, 1)>>

\* C14: a step of a notification mutation called by user X changes or
\* removes only notifications whose recipient is X, whichever of
\* updateNotification, markNotificationRead, markAllNotificationsRead,
\* bulkNotificationAction or deleteNotification it belongs to; and the
\* single-notification operations, unless the store itself fails, answer a
\* request for another user's notification with the error they give for an
\* id that is not stored.
C14_MutationsScopedToRecipient ==
  [][LET actors ==
           {req[r].user : r \in {q \in Reqs : req[q] # Idle /\ req'[q] # req[q]}}
           \cup (IF "user" \in DOMAIN lastResult' THEN {lastResult'.user} ELSE {})
     IN /\ Len(notifications') = Len(notifications)
        /\ \A i \in 1..Len(notifications) :
             notifications'[i] # notifications[i] =>
               notifications[i].user \in actors
        /\ Cardinality(actors) <= 1
        /\ (/\ lastResult'.op \in {"markRead", "update", "delete"}
            /\ lastResult'.truth = "foreign"
            /\ lastResult'.error # "store error")
             => [status |-> lastResult'.status, error |-> lastResult'.error] =
                  notificationLookupError(FALSE)]_vars
C14_Witness ==
  /\ lastResult.op = "bulk"
  /\ lastResult.status = 200
  /\ lastResult.action = "delete"
  /\ lastResult.foreign
  /\ \E i \in 1..Len(notifications) :
       notifications[i].user # lastResult.user /\ ~notifications[i].deleted
  /\ \E i \in 1..Len(notifications) :
       notifications[i].user = lastResult.user /\ notifications[i].deleted

\* C15: a step that returns from markNotificationRead,
\* markAllNotificationsRead or a bulk mark_read leaves isRead and readAt of
\* every notification that was already read as they were.
C15_RemarkLeavesReadAt ==
  [][(\/ lastResult'.op \in {"markRead", "markAllRead"}
      \/ /\ lastResult'.op = "bulk"
         /\ "action" \in DOMAIN lastResult'
         /\ lastResult'.action = "mark_read")
       => \A i \in 1..Len(notifications) :
            (notifications[i].isRead /\ ~notifications[i].deleted) =>
              /\ notifications'[i].isRead = notifications[i].isRead
              /\ notifications'[i].readAt = notifications[i].readAt]_vars

(***************************************************************************)
(* C16: a push that cannot be delivered never fails the operation that     *)
(* persisted.  In every step in which an emit threw or the unread-count    *)
(* query of the broadcast failed, the call does not fail (it goes on or    *)
(* returns a success) and every stored document is kept; and once          *)
(* createNotification has persisted, or createMessage has sent its pushes, *)
(* the call returns success with the persisted notification or message.    *)
(***************************************************************************)
PushFailedIn(events) ==
  \E k \in 1..Len(events) : events[k] \in {EmitThrew, CountFailed}

WritesKept ==
  /\ Len(notifications') >= Len(notifications)
  /\ SubSeq(notifications', 1, Len(notifications)) = notifications
  /\ Len(messages') >= Len(messages)
  /\ SubSeq(messages', 1, Len(messages)) = messages
  /\ Len(messageReads') >= Len(messageReads)
  /\ SubSeq(messageReads', 1, Len(messageReads)) = messageReads
  /\ Len(conversations') >= Len(conversations)
  /\ SubSeq(conversations', 1, Len(conversations)) = conversations

C16_PushFailureNeverFailsOperation ==
  [][/\ PushFailedIn(pushed') =>
          /\ lastResult'.status < 400
          /\ WritesKept
     /\ \A r \in Reqs :
          /\ (req[r].op = "create" /\ req[r].pc = "count") =>
               /\ req'[r] = Idle
               /\ lastResult'.status = 201
               /\ lastResult'.id \in 1..Len(notifications')
               /\ notifications'[lastResult'.id].user = req[r].user
          /\ (/\ req[r].op = "createMessage"
              /\ req[r].pc \in {"notify", "notifyCount"}
              /\ req'[r] = Idle) =>
               /\ lastResult'.status = 201
               /\ lastResult'.message \in 1..Len(messages')]_vars

\* markConversationRead wrote its read receipts, both of its emits threw,
\* and it answered 200.
C16_Witness ==
  /\ lastResult.op = "markConversationRead"
  /\ lastResult.status = 200
  /\ lastResult.markedCount > 0
  /\ pushed = <<EmitThrew, EmitThrew>>
  /\ Len(messageReads) > 0

(***************************************************************************)
(* C17: emitToUser emits to every connection registered for the user and   *)
(* to no other connection, and returns true exactly when there is at least *)
(* one; for a user with no registered connection it emits nothing and      *)
(* returns false.  The registered connections of a user are the live       *)
(* connections whose handshake was bound to that user.                     *)
(***************************************************************************)
ConnectionsOf(userId) ==
  {s \in Sockets : sockState[s] = "connected" /\ socketData[s] = userId}

C17_EmitToUserReachesExactlyTheUsersConnections ==
  [][(lastResult'.op = "emitToUser" /\ UNCHANGED socketVars) =>
       /\ lastResult'.sockets = ConnectionsOf(lastResult'.user)
       /\ lastResult'.sockets =
            IF lastResult'.user \in DOMAIN userSockets
            THEN userSockets[lastResult'.user] ELSE {}
       /\ lastResult'.returned = (Cardinality(lastResult'.sockets) >= 1)]_vars

\* u1 has one live connection and u2 another: an emit to u1 reached the
\* first and not the second, and returned true.
C17_Witness ==
  /\ lastResult.op = "emitToUser"
  /\ lastResult.user = "u1"
  /\ lastResult.returned
  /\ Cardinality(lastResult.sockets) = 1
  /\ ConnectionsOf("u1") = lastResult.sockets
  /\ ConnectionsOf("u2") # {}

(***************************************************************************)
(* C18: once all connections of a user have disconnected the registry has  *)
(* no entry for the user (an entry is never an empty set),                 *)
(* getOnlineSockets gives the empty list and emitToUser emits nothing and  *)
(* returns false; this holds also when the connections had joined          *)
(* conversation rooms.                                                     *)
(***************************************************************************)
DisconnectedOf(userId) ==
  {s \in Sockets : sockState[s] = "closed" /\ socketData[s] = userId}

C18_NoEntryAfterLastDisconnect ==
  /\ \A u \in DOMAIN userSockets : userSockets[u] # {}
  /\ \A u \in Users :
       (DisconnectedOf(u) # {} /\ ConnectionsOf(u) = {}) =>
         /\ u \notin DOMAIN userSockets
         /\ getOnlineSockets(u) = {}
         /\ emitToUserSockets(u) = {}
         /\ ~emitToUserReturns(u)

\* Every connection was u1's, one of them had joined a conversation room,
\* and all have disconnected.
C18_Witness ==
  /\ \A s \in Sockets : s \in DisconnectedOf("u1")
  /\ lastJoinReply.success
  /\ "u1" \notin DOMAIN userSockets
  /\ getOnlineSockets("u1") = {}

(***************************************************************************)
(* C19: a handshake that fails (no credential, a bad token, a user that is *)
(* missing, inactive or soft-deleted, a lookup that throws) is refused and *)
(* leaves the registry, the room table and the rooms as they were; a       *)
(* refused connection stays refused, and a connection is in the registry   *)
(* only after its handshake succeeded and bound it to an active user.      *)
(***************************************************************************)
Registered ==
  {s \in Sockets : \E u \in DOMAIN userSockets : s \in userSockets[u]}

C19_FailedHandshakeRegistersNothing ==
  [][\A s \in Sockets :
       /\ (sockState[s] = "fresh" /\ sockState'[s] = "refused") =>
            UNCHANGED <<userSockets, socketConversations, rooms, socketData>>
       /\ sockState[s] = "refused" => sockState'[s] = "refused"
       /\ (sockState[s] = "fresh" /\ sockState'[s] # "fresh") =>
            /\ sockState'[s] \in {"admitted", "refused"}
            /\ (sockState'[s] = "admitted") = (socketData'[s] \in Users)
       /\ s \in Registered' =>
            /\ sockState'[s] = "connected"
            /\ socketData'[s] \in Users]_vars

\* The first connection is registered and in a room when the handshake of
\* the second is refused.
C19_Witness ==
  /\ sockState[1] = "connected"
  /\ sockState[2] = "refused"
  /\ Registered = {1}
  /\ rooms # {}
  /\ 1 \in DOMAIN socketConversations

(***************************************************************************)
(* C20: a connection id is absent from the registry or in the set of       *)
(* exactly one user, the user its handshake bound it to.                   *)
(***************************************************************************)
OwnersOf(s) == {u \in DOMAIN userSockets : s \in userSockets[u]}

C20_ConnectionUnderExactlyItsUser ==
  \A s \in Sockets :
    /\ Cardinality(OwnersOf(s)) <= 1
    /\ OwnersOf(s) \subseteq {socketData[s]}
    /\ sockState[s] = "connected" => OwnersOf(s) = {socketData[s]}

\* Two live connections of two users, each under its own user.
C20_Witness ==
  /\ \A s \in Sockets : sockState[s] = "connected"
  /\ socketData[1] # socketData[2]
  /\ OwnersOf(1) = {socketData[1]}
  /\ OwnersOf(2) = {socketData[2]}

(***************************************************************************)
(* C21: every conversation broadcast makes both deliveries.  In every      *)
(* reachable state and for every conversation event a handler emits, each  *)
(* live connection that has joined the conversation gets the room's packet *)
(* and each live connection of a listed recipient gets the user-level      *)
(* packet, whether it joined the room or not.                              *)
(***************************************************************************)
Joined(s, c) ==
  /\ sockState[s] = "connected"
  /\ s \in DOMAIN socketConversations
  /\ c \in socketConversations[s]

C21_BroadcastUsesRoomAndUserChannel ==
  \A e \in ConversationEvents : \A s \in Sockets :
    /\ Joined(s, e.conversation) => viaRoom(e, s) = 1
    /\ (s \in ConnectionsOf(socketData[s]) /\ socketData[s] \in e.users) =>
         viaUsers(e, s) >= 1

\* Both participants of conversation 1 are connected; only the first
\* connection joined its room, and a message event reaches the second by
\* the user-level emit alone.
C21_Witness ==
  /\ Len(conversations) >= 1
  /\ \A s \in Sockets : sockState[s] = "connected"
  /\ Joined(1, 1) /\ ~Joined(2, 1)
  /\ socketData[2] \in toParticipantIds(conversations[1])
  /\ LET e == emitConversationEvent(1, toParticipantIds(conversations[1]),
                                    "conversations:message", 0)
     IN /\ viaRoom(e, 1) = 1
        /\ viaRoom(e, 2) = 0
        /\ viaUsers(e, 2) = 1

(***************************************************************************)
(* C22: no read-mark has the sender of its message as reader.  After every *)
(* step no stored read-mark is for a message its reader sent, and a step   *)
(* of createMessage or startConversation (which stores the first message)  *)
(* writes no read-mark at all.                                             *)
(***************************************************************************)
NoSelfReads(reads) ==
  \A k \in 1..Len(reads) : messages[reads[k].message].sender # reads[k].user

C22_NoReadMarkForSender ==
  [][/\ NoSelfReads(messageReads')
     /\ \A r \in Reqs :
          (\/ req[r].op \in {"createMessage", "startConversation"}
           \/ req'[r].op \in {"createMessage", "startConversation"}) =>
            messageReads' = messageReads
     /\ lastResult'.op \in {"createMessage", "startConversation"} =>
          messageReads' = messageReads]_vars

\* u1 sent every stored message and called markConversationRead: the call
\* succeeded and no read-mark was written.
C22_Witness ==
  /\ lastResult.op = "markConversationRead"
  /\ lastResult.status = 200
  /\ lastResult.user = "u1"
  /\ Len(messages) >= 2
  /\ \A i \in 1..Len(messages) : messages[i].sender = "u1"
  /\ messageReads = <<>>

(***************************************************************************)
(* C27: the markedCount a markConversationRead call returns is the number  *)
(* of read-marks that call inserted, so that the returned counts add up to *)
(* the read-marks created, overlapping calls included.                     *)
(***************************************************************************)
C27_MarkedCountIsInsertedCount ==
  (lastResult.op = "markConversationRead" /\ lastResult.status = 200) =>
    lastResult.markedCount = lastResult.inserted

(***************************************************************************)
(* C23: a getConversations result has one summary for every conversation   *)
(* the user participates in; its unreadCount is the number of stored       *)
(* messages of the conversation that another user sent and that have no    *)
(* read-mark for the user, and its lastMessage is the stored message       *)
(* created last (none when the conversation has no message).               *)
(***************************************************************************)
C23_SummaryCountsUnreadAndLatest ==
  (lastResult.op = "getConversations" /\ lastResult.status = 200) =>
    LET u == lastResult.user
        summaries == lastResult.summaries
    IN /\ DOMAIN summaries =
            {c \in 1..Len(conversations) :
               \E i \in 1..Len(conversations[c]) : conversations[c][i] = u}
       /\ \A c \in DOMAIN summaries :
            LET mine == {i \in 1..Len(messages) : messages[i].conversation = c}
                read == {messageReads[k].message :
                           k \in {n \in 1..Len(messageReads) :
                                    messageReads[n].user = u}}
            IN /\ summaries[c].unreadCount =
                    Cardinality({i \in mine : messages[i].sender # u
                                              /\ i \notin read})
               /\ IF mine = {} THEN summaries[c].lastMessage = 0
                  ELSE /\ summaries[c].lastMessage \in mine
                       /\ \A i \in mine : i <= summaries[c].lastMessage

\* u2 has read one of the two messages u1 sent: the summary counts one
\* unread message and names the second message as the last.
C23_Witness ==
  /\ lastResult.op = "getConversations"
  /\ lastResult.status = 200
  /\ lastResult.user = "u2"
  /\ Len(messages) = 2
  /\ Len(messageReads) = 1
  /\ lastResult.summaries[1].unreadCount = 1
  /\ lastResult.summaries[1].lastMessage = 2

(***************************************************************************)
(* C24: clearing the read flag clears the read timestamp, so that in every *)
(* reachable state a stored notification with isRead = false has no        *)
(* readAt.                                                                 *)
(***************************************************************************)
C24_UnreadHasNoReadAt ==
  \A i \in 1..Len(notifications) :
    (~notifications[i].deleted /\ ~notifications[i].isRead) =>
      notifications[i].readAt = 0

C26_OneConversationPerPair ==
  \A c \in 1..Len(conversations), d \in 1..Len(conversations) :
    SeqToSet(conversations[c]) = SeqToSet(conversations[d]) => c = d

(***************************************************************************)
(* C28: when a createNotification call pushes the unread count of its user *)
(* and returns while no other create for that user is in flight, so that   *)
(* this push is the last one of the creates, the pushed count is the       *)
(* number of the user's stored unread notifications.                       *)
(***************************************************************************)
C28_LastUnreadCountIsStoredCount ==
  [][\A r \in Reqs, u \in NotifUsers :
       ( /\ req[r].op = "create"
         /\ req[r].user = u
         /\ req'[r] = Idle
         /\ \A q \in Reqs \ {r} :
              ~(req[q].op = "create" /\ req[q].user = u)
         /\ Len(pushed') = 1
         /\ pushed'[1].event = "notifications:unreadCount" ) =>
         pushed'[1] = emitUnreadCount(u, countUnread(u)')]_vars

(***************************************************************************)
(* C29: in every state the socket layer reaches by connects, joins, leaves *)
(* and disconnects, and for every event the send, mark-read and            *)
(* notification handlers emit, a connection that is sent a conversation    *)
(* event belongs to a participant of its conversation, and a connection    *)
(* that is sent a notification event or unread count for a user is in the  *)
(* registry under that user and bound to that user.                        *)
(***************************************************************************)
C29_EventsReachOnlyEntitledConnections ==
  \A e \in HandlerEvents : \A s \in SentTo(e) :
    /\ Copies(e, s) > 0
    /\ IF "conversation" \in DOMAIN e
       THEN IsParticipant(socketData[s], e.conversation)
       ELSE /\ OwnersOf(s) = {e.user}
            /\ socketData[s] = e.user

\* Conversation 1 has a joined connection of a participant and the other
\* connection is live and belongs to a user outside the conversation: the
\* first is sent the conversation's events and its own user's unread count,
\* the second none of them.
C29_Witness ==
  /\ Len(conversations) >= 1
  /\ \A s \in Sockets : sockState[s] = "connected"
  /\ Joined(1, 1)
  /\ ~IsParticipant(socketData[2], 1)
  /\ socketData[1] \in NotifUsers
  /\ LET e == emitConversationEvent(1, toParticipantIds(conversations[1]),
                                    "conversations:message", 0)
         n == emitUnreadCount(socketData[1], 1)
     IN /\ Copies(e, 1) > 0
        /\ Copies(e, 2) = 0
        /\ Copies(n, 1) = 1
        /\ Copies(n, 2) = 0

(***************************************************************************)
(* C30: a conversation broadcast is delivered through the room and through *)
(* the user-level channel without deduplication.  For every conversation   *)
(* event a handler emits, the number of packets a live connection is sent  *)
(* is one if it has joined the conversation plus one if it belongs to a    *)
(* listed recipient: two for a joined connection of a recipient, one for a *)
(* connection reached by only one of the two paths, none for any other.    *)
(***************************************************************************)
C30_JoinedRecipientGetsEventTwice ==
  \A e \in ConversationEvents :
    \A s \in {t \in Sockets : sockState[t] = "connected"} :
      Copies(e, s) = (IF Joined(s, e.conversation) THEN 1 ELSE 0)
                     + (IF socketData[s] \in e.users THEN 1 ELSE 0)

\* Both participants of conversation 1 are connected and both joined: a
\* message event is sent twice to each, and the read event of the second
\* connection's user twice to the first connection and once, by the room
\* alone, to the reader's own.
C30_Witness ==
  /\ Len(conversations) >= 1
  /\ \A s \in Sockets : sockState[s] = "connected"
  /\ Joined(1, 1) /\ Joined(2, 1)
  /\ socketData[1] # socketData[2]
  /\ LET ids == toParticipantIds(conversations[1])
         e == emitConversationEvent(1, ids, "conversations:message", 0)
         rd == emitConversationEvent(1, ids \ {socketData[2]},
                                     "conversations:read", 0)
     IN /\ Copies(e, 1) = 2
        /\ Copies(e, 2) = 2
        /\ Copies(rd, 1) = 2
        /\ Copies(rd, 2) = 1

====
